---- MODULE Spec2Model ----
(***************************************************************************)
(* Classification & confidence engine of prtool (src/prtool/classifier.py) *)
(* with the feature extractor that feeds it                                *)
(* (src/prtool/feature_extractor.py).                                      *)
(*                                                                         *)
(* Conventions                                                             *)
(*   - Python str values are TLA+ strings; substring, prefix and suffix    *)
(*     tests are computed character by character (Contains, StartsWith,    *)
(*     EndsWith), lower() and strip() are computed too.                    *)
(*   - floats are fixed-point integers:                                    *)
(*       infra signal scores and infra thresholds   in tenths     (x10)    *)
(*       scoreboard scores, margins, confidence,                           *)
(*       needs_review_threshold                     in thousandths (x1000) *)
(*       file ratios (round(x, 4))                  in 1/10000    (x10000) *)
(*   - a dict is a function whose DOMAIN is the set of keys present.       *)
(***************************************************************************)
EXTENDS Integers, Sequences, FiniteSets, TLC

VARIABLES
    mr,           \* the merge request dict: title, description, labels, branches
    commits,      \* list of commit dicts (their titles)
    files,        \* list of changed-file dicts
    discussions,  \* discussion summary counters
    pipelines,    \* pipeline summary counters
    settings,     \* PartialSettings thresholds (the extractor's)
    config,       \* the ClassificationConfig handed to classify
    features,     \* the FeatureVector dict handed to classify
    pc,           \* "ingested" -> "extracted" -> "classified"
    outcome,      \* "none" | "returned" | "raised"
    result,       \* the dict classify returned (NoResult otherwise)
    raisedKey     \* the key of the KeyError classify raised ("" otherwise)

\* concurrent classify calls, one per worker (spec.md, concurrency)
VARIABLES
    wargs,        \* worker -> the arguments of its call: mr, files, features, config
    frame,        \* call frame -> the local variables of classify in that frame
    wpc,          \* worker -> the statement of classify it is about to run
    wresult,      \* worker -> the dict its call returned (NoResult before)
    now           \* the clock datetime.now reads

workerVars == <<wargs, frame, wpc, wresult, now>>

\* the tables classify_project reads and writes (src/prtool/db.py)
VARIABLES
    mrs,             \* merge_requests with mr_files: id -> project_id, row, files
    classifications, \* mr_classifications: mr_id -> stored classification
    feature_rows,    \* mr_features: mr_id -> stored feature row
    lastCall         \* the last classify / reclassify call and what it returned

storeVars == <<mrs, classifications, feature_rows, lastCall>>

\* one select_enrich_candidates call (src/prtool/enrich.py)
VARIABLES
    pool,            \* the rows _load_stratified_pool returned, best first
    candidate_options, \* the CandidateOptions of the call
    selected         \* the rows select_enrich_candidates returned

enrichVars == <<pool, candidate_options, selected>>

\* sync_refresh runs of one project against its GitLab (src/prtool/pipeline.py)
VARIABLES
    remote,          \* GitLab: iid -> state and updated_at of the merge request
    remote_clock,    \* GitLab's clock, the updated_at of the latest change
    synced,          \* merge_requests: iid -> the stored updated_at
    checkpoint,      \* the sync_checkpoints row of source refresh, <<>> when none
    lastSync         \* the last sync_refresh run and what it fetched

syncVars == <<remote, remote_clock, synced, checkpoint, lastSync>>

vars == <<mr, commits, files, discussions, pipelines, settings, config, features,
          pc, outcome, result, raisedKey, workerVars, storeVars, enrichVars, syncVars>>

\* no worker exists
NoWorkers ==
    /\ wargs = <<>> /\ frame = <<>> /\ wpc = <<>> /\ wresult = <<>> /\ now = 0

\* no database is open
NoStore ==
    /\ mrs = <<>> /\ classifications = <<>> /\ feature_rows = <<>>
    /\ lastCall = [command |-> "none"]

\* no enrichment run was asked for
NoEnrich ==
    /\ pool = <<>> /\ candidate_options = [mode |-> ""] /\ selected = <<>>

\* no refresh was asked for
NoSync ==
    /\ remote = <<>> /\ remote_clock = 0 /\ synced = <<>> /\ checkpoint = <<>>
    /\ lastSync = [command |-> "none"]

(***************************************************************************)
(* Bounds of the model.                                                    *)
(***************************************************************************)
MaxFiles == 2

(***************************************************************************)
(* str helpers.                                                            *)
(***************************************************************************)
Max(a, b) == IF a >= b THEN a ELSE b
Min(a, b) == IF a <= b THEN a ELSE b

Char(s, i) == SubSeq(s, i, i)

Contains(text, needle) ==
    \E i \in 1..(Len(text) - Len(needle) + 1) :
        SubSeq(text, i, i + Len(needle) - 1) = needle

StartsWith(text, prefix) ==
    Len(text) >= Len(prefix) /\ SubSeq(text, 1, Len(prefix)) = prefix

EndsWith(text, suffix) ==
    Len(text) >= Len(suffix)
    /\ SubSeq(text, Len(text) - Len(suffix) + 1, Len(text)) = suffix

UpperToLower ==
    [c \in {"A","B","C","D","E","F","G","H","I","J","K","L","M",
            "N","O","P","Q","R","S","T","U","V","W","X","Y","Z"} |->
        CASE c = "A" -> "a" [] c = "B" -> "b" [] c = "C" -> "c" [] c = "D" -> "d"
          [] c = "E" -> "e" [] c = "F" -> "f" [] c = "G" -> "g" [] c = "H" -> "h"
          [] c = "I" -> "i" [] c = "J" -> "j" [] c = "K" -> "k" [] c = "L" -> "l"
          [] c = "M" -> "m" [] c = "N" -> "n" [] c = "O" -> "o" [] c = "P" -> "p"
          [] c = "Q" -> "q" [] c = "R" -> "r" [] c = "S" -> "s" [] c = "T" -> "t"
          [] c = "U" -> "u" [] c = "V" -> "v" [] c = "W" -> "w" [] c = "X" -> "x"
          [] c = "Y" -> "y" [] c = "Z" -> "z"]

RECURSIVE LowerFrom(_, _)
LowerFrom(s, i) ==
    IF i > Len(s) THEN ""
    ELSE LET c == Char(s, i)
         IN  (IF c \in DOMAIN UpperToLower THEN UpperToLower[c] ELSE c)
             \o LowerFrom(s, i + 1)

\* str.lower()
Lower(s) == LowerFrom(s, 1)

IsSpace(c) == c \in {" ", "\n", "\t"}

RECURSIVE LStrip(_)
LStrip(s) ==
    IF Len(s) > 0 /\ IsSpace(Char(s, 1)) THEN LStrip(SubSeq(s, 2, Len(s))) ELSE s

RECURSIVE RStrip(_)
RStrip(s) ==
    IF Len(s) > 0 /\ IsSpace(Char(s, Len(s)))
    THEN RStrip(SubSeq(s, 1, Len(s) - 1)) ELSE s

\* str.strip()
Strip(s) == RStrip(LStrip(s))

RECURSIVE JoinFrom(_, _, _)
JoinFrom(parts, sep, i) ==
    IF i > Len(parts) THEN ""
    ELSE IF i = Len(parts) THEN parts[i]
    ELSE parts[i] \o sep \o JoinFrom(parts, sep, i + 1)

\* sep.join(parts)
Join(parts, sep) == JoinFrom(parts, sep, 1)

IsDigit(c) == c \in {"0","1","2","3","4","5","6","7","8","9"}

\* d.get(key, default)
Get(d, key, default) == IF key \in DOMAIN d THEN d[key] ELSE default

\* len([x for x in seq if P(x)]), keep being the elements of seq that satisfy P
CountIf(seq, keep) == Cardinality({i \in DOMAIN seq : seq[i] \in keep})

(***************************************************************************)
(* Settings (src/prtool/config.py, load_partial_settings defaults).        *)
(***************************************************************************)
\* INFRA_TICKET_REGEX default [r"INFRA-\d+", r"OPS-\d+"], compiled with
\* re.IGNORECASE: each pattern is a literal prefix followed by \d+ .
InfraTicketPrefixes == <<"infra-", "ops-">>

InfraLabelAllowlist == {"infra", "platform", "devops", "sre"}

DefaultInfraKeywords ==
    <<"terraform", "k8s", "kubernetes", "helm", "ci/cd", "docker", "cluster",
      "network", "networking", "deployment", "observability", "prometheus",
      "grafana", "sre", "infra">>

(***************************************************************************)
(* FeatureExtractor (src/prtool/feature_extractor.py).                     *)
(***************************************************************************)
RECURSIVE DigitRunEnd(_, _)
\* index of the last digit of the run of digits that starts at i
DigitRunEnd(text, i) ==
    IF i + 1 <= Len(text) /\ IsDigit(Char(text, i + 1))
    THEN DigitRunEnd(text, i + 1) ELSE i

RECURSIVE FindAllFrom(_, _, _, _)
\* pattern.findall(text) for the pattern prefix\d+ with re.IGNORECASE:
\* the non-overlapping matches, scanning left to right from index i
FindAllFrom(text, lowered, prefix, i) ==
    IF i + Len(prefix) > Len(text) THEN <<>>
    ELSE IF /\ SubSeq(lowered, i, i + Len(prefix) - 1) = prefix
            /\ IsDigit(Char(text, i + Len(prefix)))
         THEN LET j == DigitRunEnd(text, i + Len(prefix))
              IN  <<SubSeq(text, i, j)>> \o FindAllFrom(text, lowered, prefix, j + 1)
         ELSE FindAllFrom(text, lowered, prefix, i + 1)

FindAll(prefix, text) == FindAllFrom(text, Lower(text), prefix, 1)

RECURSIVE MatchedTicketsFrom(_, _)
MatchedTicketsFrom(raw, k) ==
    IF k > Len(InfraTicketPrefixes) THEN <<>>
    ELSE FindAll(InfraTicketPrefixes[k], raw) \o MatchedTicketsFrom(raw, k + 1)

SeqToSet(seq) == {seq[i] : i \in DOMAIN seq}

ExtractInfraSignals(title, description, labels, st) ==
    LET text            == Lower(title \o "\n" \o description)
        matched_tickets == MatchedTicketsFrom(title \o "\n" \o description, 1)
        keyword_hits    == {i \in DOMAIN DefaultInfraKeywords :
                                Contains(text, DefaultInfraKeywords[i])}
        label_hits      == {i \in DOMAIN labels : Lower(labels[i]) \in InfraLabelAllowlist}
        ticket_score    == Len(matched_tickets) * 25
        label_score     == Cardinality(label_hits) * 20
        keyword_score   == Min(Cardinality(keyword_hits) * 15, 30)
        signal_score    == ticket_score + label_score + keyword_score
        signal_level    == IF signal_score >= st.infra_strong_threshold THEN "strong"
                           ELSE IF signal_score >= st.infra_weak_threshold THEN "weak"
                           ELSE "none"
    IN  [ticket_match_count |-> Len(matched_tickets),
         keyword_score      |-> keyword_score,
         label_match_count  |-> Cardinality(label_hits),
         signal_score       |-> signal_score,
         signal_level       |-> signal_level,
         matched_keywords   |-> {DefaultInfraKeywords[i] : i \in keyword_hits},
         matched_tickets    |-> matched_tickets,
         matched_labels     |-> {labels[i] : i \in label_hits}]

DepFiles ==
    {"package-lock.json", "pnpm-lock.yaml", "yarn.lock", "poetry.lock",
     "requirements.txt", "requirements-dev.txt", "pom.xml", "build.gradle",
     "build.gradle.kts", "gemfile.lock", "composer.lock", "cargo.lock",
     "go.mod", "go.sum"}

RECURSIVE Basename(_)
\* p.split("/")[-1] if p else ""
Basename(p) ==
    IF Contains(p, "/")
    THEN LET i == CHOOSE k \in 1..Len(p) :
                      Char(p, k) = "/" /\ \A j \in 1..(k - 1) : Char(p, j) # "/"
         IN  Basename(SubSeq(p, i + 1, Len(p)))
    ELSE p

\* f.get("new_path") or f.get("old_path") or ""
RawPath(f) ==
    IF Get(f, "new_path", "") # "" THEN f["new_path"] ELSE Get(f, "old_path", "")

\* round(count / total, 4), in 1/10000
Ratio4(count, total) == (2 * 10000 * count + total) \div (2 * total)

IsDocsPathStat(p) == EndsWith(p, ".md") \/ StartsWith(p, "docs/") \/ Contains(p, "/docs/")

IsTestPathStat(p) ==
    \/ Contains(p, "test")
    \/ EndsWith(p, "_test.py")
    \/ EndsWith(p, ".spec.ts")
    \/ EndsWith(p, ".spec.js")
    \/ EndsWith(p, ".test.ts")
    \/ EndsWith(p, ".test.js")

\* mutant: the whole path, not its basename, is looked up
IsDepPathStatWholePath(p) == p \in DepFiles

IsDepPathStat(p) == Basename(p) \in DepFiles

IsInfraPathStat(p) ==
    \/ p \in {".gitlab-ci.yml", ".gitlab-ci.yaml", "dockerfile", "serverless.yml"}
    \/ StartsWith(p, "infra/")
    \/ StartsWith(p, "infrastructure/")
    \/ StartsWith(p, "terraform/")
    \/ StartsWith(p, "helm/")
    \/ StartsWith(p, "k8s/")
    \/ EndsWith(p, ".tf")
    \/ EndsWith(p, ".tfvars")
    \/ StartsWith(p, ".github/workflows/")

IsConfigPathStat(p) ==
    \/ EndsWith(p, ".yml") \/ EndsWith(p, ".yaml") \/ EndsWith(p, ".json")
    \/ EndsWith(p, ".toml") \/ EndsWith(p, ".ini") \/ EndsWith(p, ".conf")
    \/ EndsWith(p, ".properties") \/ EndsWith(p, ".env")

IsCodePathStat(p) ==
    p # "" /\ ~IsDocsPathStat(p) /\ ~IsTestPathStat(p) /\ ~IsDepPathStat(p)

PathStats(fs) ==
    LET paths == [i \in DOMAIN fs |-> Lower(Strip(RawPath(fs[i])))]
        total == Max(1, Len(paths))
        docs  == CountIf(paths, {x \in SeqToSet(paths) : IsDocsPathStat(x)})
        tests == CountIf(paths, {x \in SeqToSet(paths) : IsTestPathStat(x)})
        deps  == CountIf(paths, {x \in SeqToSet(paths) : IsDepPathStat(x)})
        infra == CountIf(paths, {x \in SeqToSet(paths) : IsInfraPathStat(x)})
        cfg   == CountIf(paths, {x \in SeqToSet(paths) : IsConfigPathStat(x)})
        code  == CountIf(paths, {x \in SeqToSet(paths) : IsCodePathStat(x)})
    IN  [docs_file_count   |-> docs,
         test_file_count   |-> tests,
         dep_file_count    |-> deps,
         infra_file_count  |-> infra,
         config_file_count |-> cfg,
         code_file_count   |-> code,
         docs_file_ratio   |-> Ratio4(docs, total),
         test_file_ratio   |-> Ratio4(tests, total),
         dep_file_ratio    |-> Ratio4(deps, total),
         infra_file_ratio  |-> Ratio4(infra, total),
         code_file_ratio   |-> Ratio4(code, total),
         dep_only_change   |-> (Len(paths) > 0 /\ deps = Len(paths))]

RECURSIVE SumOver(_, _, _)
SumOver(seq, key, i) ==
    IF i > Len(seq) THEN 0 ELSE Get(seq[i], key, 0) + SumOver(seq, key, i + 1)

\* str(c.get("title") or c.get("message") or "")
CommitText(c) ==
    IF Get(c, "title", "") # "" THEN c["title"] ELSE Get(c, "message", "")

\* FeatureExtractor.extract
Extract(m, cs, fs, disc, pipe, st) ==
    LET title       == Get(m, "title", "")
        description == Get(m, "description", "")
        labels      == Get(m, "labels", <<>>)
        additions   == SumOver(fs, "additions", 1)
        deletions   == SumOver(fs, "deletions", 1)
        infra       == ExtractInfraSignals(title, description, labels, st)
        path_stats  == PathStats(fs)
    IN  [files_changed            |-> Len(fs),
         additions                |-> additions,
         deletions                |-> deletions,
         churn                    |-> additions + deletions,
         commit_count             |-> Len(cs),
         review_comment_count     |-> disc["note_count"],
         review_thread_count      |-> disc["thread_count"],
         unresolved_thread_count  |-> disc["unresolved_count"],
         pipeline_failed_count    |-> pipe["failed_count"],
         infra_ticket_match_count |-> infra.ticket_match_count,
         infra_keyword_score      |-> infra.keyword_score,
         infra_label_match_count  |-> infra.label_match_count,
         infra_signal_score       |-> infra.signal_score,
         infra_signal_level       |-> infra.signal_level,
         matched_infra_keywords   |-> infra.matched_keywords,
         matched_infra_tickets    |-> infra.matched_tickets,
         matched_infra_labels     |-> infra.matched_labels,
         label_count              |-> Len(labels),
         has_description          |-> (Strip(description) # ""),
         commit_message_text      |-> Lower(Join([i \in DOMAIN cs |-> CommitText(cs[i])], " ")),
         docs_file_count          |-> path_stats.docs_file_count,
         test_file_count          |-> path_stats.test_file_count,
         dep_file_count           |-> path_stats.dep_file_count,
         infra_file_count         |-> path_stats.infra_file_count,
         config_file_count        |-> path_stats.config_file_count,
         code_file_count          |-> path_stats.code_file_count,
         docs_file_ratio          |-> path_stats.docs_file_ratio,
         test_file_ratio          |-> path_stats.test_file_ratio,
         dep_file_ratio           |-> path_stats.dep_file_ratio,
         infra_file_ratio         |-> path_stats.infra_file_ratio,
         code_file_ratio          |-> path_stats.code_file_ratio,
         dep_only_change          |-> path_stats.dep_only_change]

(***************************************************************************)
(* Classifier (src/prtool/classifier.py).                                  *)
(***************************************************************************)
PR_TYPES ==
    {"feature", "bugfix", "refactor", "test-only", "docs-only", "chore",
     "perf-security", "infra"}

CLASSIFIER_VERSION == "v2.8"

\* str(v or "").lower()
SafeText(v) == Lower(v)

CollectPaths(fs) == [i \in DOMAIN fs |-> Strip(SafeText(RawPath(fs[i])))]

JoinedText(m, fs, ft) ==
    LET title         == SafeText(Get(m, "title", ""))
        desc          == SafeText(Get(m, "description", ""))
        labels        == [i \in DOMAIN Get(m, "labels", <<>>) |-> Lower(m["labels"][i])]
        source_branch == SafeText(Get(m, "source_branch", ""))
        target_branch == SafeText(Get(m, "target_branch", ""))
        commit_text   == SafeText(Get(ft, "commit_message_text", ""))
    IN  title \o "\n" \o desc \o "\n" \o Join(labels, " ") \o "\n"
        \o source_branch \o " " \o target_branch \o "\n" \o commit_text \o "\n"
        \o Join(CollectPaths(fs), " ")

HasAny(text, needles) == \E n \in needles : Contains(text, n)

InfraishTerms ==
    <<"deploy", "deployment", "redeploy", "release", "rollout", "lambda", "serverless">>

\* [x for x in seq if P(x)], keep being the elements of seq that satisfy P
RECURSIVE FilterFrom(_, _, _)
FilterFrom(seq, keep, i) ==
    IF i > Len(seq) THEN <<>>
    ELSE (IF seq[i] \in keep THEN <<seq[i]>> ELSE <<>>) \o FilterFrom(seq, keep, i + 1)

Filter(seq, keep) == FilterFrom(seq, keep, 1)

\* the terms of the list that occur in the text, in list order
Hits(text, terms) == Filter(terms, {t \in SeqToSet(terms) : Contains(text, t)})

IsDocsPath(p) == EndsWith(p, ".md") \/ StartsWith(p, "docs/")

IsTestPath(p) ==
    \/ Contains(p, "test")
    \/ EndsWith(p, "_test.py")
    \/ EndsWith(p, ".spec.ts")
    \/ EndsWith(p, ".test.ts")
    \/ EndsWith(p, ".test.js")

\* round(r, 3) of a ratio held in 1/10000, in thousandths
Round3(r4) == (r4 + 5) \div 10

BugfixTerms == <<"fix", "bug", "issue", "regression", "hotfix", "incident", "defect", "patch">>
RefactorTerms == <<"refactor", "cleanup", "restructure", "simplify", "rename", "extract method">>
TestTerms == <<"test", "unit test", "integration test", "e2e", "spec", "coverage">>
DocsTerms == <<"docs", "documentation", "readme", "changelog", "runbook", "adr">>
ChoreTerms == <<"chore", "deps", "dependency", "bump", "build", "ci", "lint", "format">>
PerfSecurityTerms ==
    <<"security", "vulnerability", "cve", "snyk", "auth", "authorization", "token",
      "rbac", "perf", "performance", "latency", "throughput", "optimize">>

(***************************************************************************)
(* The scores of infer_base_type are Python floats (IEEE 754 binary64).    *)
(* Every score is a multiple of 0.05 up to rounding error, so a float is   *)
(* held exactly as <<m, d>>: the value m/1000 + d * 2^-58 / 5, with m a    *)
(* multiple of 50. The additions and products below round to the nearest   *)
(* binary64, ties to even, as the hardware does.                           *)
(***************************************************************************)
\* 2^k for the small exponents of an ulp
RECURSIVE Pow2(_)
Pow2(k) == IF k = 0 THEN 1 ELSE 2 * Pow2(k - 1)

\* floor(log2(m / 1000)) of a float near m/1000, 50 <= m < 32000
FloatExponent(m, d) ==
    LET e == IF m >= 16000 THEN 4 ELSE IF m >= 8000 THEN 3 ELSE IF m >= 4000 THEN 2
             ELSE IF m >= 2000 THEN 1 ELSE IF m >= 1000 THEN 0 ELSE IF m >= 500 THEN -1
             ELSE IF m >= 250 THEN -2 ELSE IF m >= 125 THEN -3
             ELSE IF m >= 63 THEN -4 ELSE -5
    IN  IF d < 0 /\ m \in {16000, 8000, 4000, 2000, 1000, 500, 250} THEN e - 1 ELSE e

\* the multiple of ulp nearest to the number, ties to the even multiple; R is
\* the number modulo 2 * ulp, in units of 2^-58 / 5
FloatNearest(m, d, ulp, R) ==
    <<m, IF 2 * (R % ulp) > ulp \/ (2 * (R % ulp) = ulp /\ R >= ulp)
         THEN d - (R % ulp) + ulp ELSE d - (R % ulp)>>

\* m/1000 + d * 2^-58 / 5 modulo 2 * ulp: m/1000 is (m / 50) * 2^56 units,
\* and 2^k mod 5 = <<1, 2, 4, 3>>[k % 4 + 1]
FloatResidue(m, d, e, ulp) ==
    (Pow2(e + 7) * ((((m \div 50) % 5) * <<1, 2, 4, 3>>[((49 - e) % 4) + 1]) % 5) + d)
        % (2 * ulp)

\* rounding at exponent e, where one ulp is 2^(e - 52) = 5 * 2^(e + 6) units
FloatRoundAt(m, d, e) ==
    FloatNearest(m, d, 5 * Pow2(e + 6), FloatResidue(m, d, e, 5 * Pow2(e + 6)))

\* the binary64 nearest to the real number m/1000 + d * 2^-58 / 5
FloatRound(m, d) ==
    IF m = 0 THEN <<0, 0>> ELSE FloatRoundAt(m, d, FloatExponent(m, d))

\* a float literal such as 1.45, in thousandths
FloatOf(m) == FloatRound(m, 0)

FloatAdd(a, b) == FloatRound(a[1] + b[1], a[2] + b[2])

FloatSub(a, b) == FloatRound(a[1] - b[1], a[2] - b[2])

\* max(0.0, a)
FloatMax0(a) == IF a[1] < 0 \/ (a[1] = 0 /\ a[2] < 0) THEN <<0, 0>> ELSE a

\* len(hits) * weight
FloatTimes(k, a) == FloatRound(k * a[1], k * a[2])

\* a >= b and a > b of two floats
FloatGe(a, b) == a[1] > b[1] \/ (a[1] = b[1] /\ a[2] >= b[2])

FloatGt(a, b) == a[1] > b[1] \/ (a[1] = b[1] /\ a[2] > b[2])

\* sorted(scores.items(), key=lambda kv: kv[1], reverse=True) of the items
\* <<label, float>> in insertion order: a stable sort, so equal floats keep
\* their insertion order
SortedScores(items) ==
    LET Before(a, b) == FloatGt(items[a][2], items[b][2])
                        \/ (items[a][2] = items[b][2] /\ a < b)
        Rank(a) == Cardinality({b \in DOMAIN items : Before(b, a)})
    IN  [i \in DOMAIN items |-> items[CHOOSE a \in DOMAIN items : Rank(a) = i - 1]]

\* round(v, 3) of a float score, in thousandths
RoundScore(v) == v[1]

\* a template result of infer_base_type
TemplateReason(type, reason, score, evidenceKey, evidenceHits, docs_ratio, test_ratio) ==
    [base_type |-> type,
     reason    |-> [reason     |-> reason,
                    scoreboard |-> << <<type, score>> >>,
                    evidence   |-> [k \in {evidenceKey} |-> evidenceHits],
                    certainty  |-> "high",
                    top_margin |-> score,
                    docs_ratio |-> Round3(docs_ratio),
                    test_ratio |-> Round3(test_ratio)]]

\* the feature score: 0.6, +0.7 for a feature phrase, -0.2 under a fix title
FeatureScore(fixTitle, featPhrase) ==
    IF fixTitle
    THEN FloatMax0(FloatSub(IF featPhrase THEN FloatAdd(FloatOf(600), FloatOf(700))
                            ELSE FloatOf(600),
                            FloatOf(200)))
    ELSE IF featPhrase THEN FloatAdd(FloatOf(600), FloatOf(700)) ELSE FloatOf(600)

\* len(hits) * weight, plus a bonus when its condition holds
TermScore(hits, weight, bonus, given) ==
    IF given THEN FloatAdd(FloatTimes(hits, FloatOf(weight)), FloatOf(bonus))
    ELSE FloatTimes(hits, FloatOf(weight))

\* the scores dict after all additions, in insertion order (lines 158-216)
WeightedScores(fixTitle, featPhrase, docs_ratio, test_ratio, dep_only, nbug, nref, ntest, ndocs, nchore, nperf) ==
    << <<"feature", FeatureScore(fixTitle, featPhrase)>>,
       <<"bugfix", TermScore(nbug, 1450, 800, fixTitle)>>,
       <<"refactor", TermScore(nref, 1100, 0, FALSE)>>,
       <<"test-only", TermScore(ntest, 900, 1400, test_ratio >= 6000)>>,
       <<"docs-only", TermScore(ndocs, 900, 1400, docs_ratio >= 6000)>>,
       <<"chore", TermScore(nchore, 950, 1800, dep_only)>>,
       <<"perf-security", TermScore(nperf, 1300, 0, FALSE)>> >>

\* the certainty of a Stage-B result (lines 226-237)
WeightedCertainty(top_type, margin, docs_ratio, test_ratio, dep_only) ==
    IF \/ (top_type = "docs-only" /\ docs_ratio >= 9000)
       \/ (top_type = "test-only" /\ test_ratio >= 9000)
       \/ (top_type = "chore" /\ dep_only)
    THEN "high"
    ELSE IF margin >= 2200 THEN "high"
    ELSE IF margin >= 1000 THEN "medium" ELSE "low"

\* the Stage-B return value for the type finally chosen (lines 239-248)
WeightedResult(top_type, sorted_scores, margin, evidence, docs_ratio, test_ratio, dep_only) ==
    [base_type |-> top_type,
     reason    |-> [reason          |-> "weighted_signal_score",
                    scoreboard      |-> [i \in DOMAIN sorted_scores |->
                                          <<sorted_scores[i][1],
                                            RoundScore(sorted_scores[i][2])>>],
                    top_margin      |-> margin,
                    certainty       |->
                        WeightedCertainty(top_type, margin, docs_ratio, test_ratio, dep_only),
                    evidence        |-> evidence,
                    docs_ratio      |-> Round3(docs_ratio),
                    test_ratio      |-> Round3(test_ratio),
                    dep_only_change |-> dep_only]]

\* the choice between the top category and feature (lines 219-224); margin is
\* round(top_score - second_score, 3) in thousandths
WeightedChoice(sorted_scores, feature, margin, evidence, docs_ratio, test_ratio, dep_only) ==
    WeightedResult(IF /\ sorted_scores[1][1] # "feature"
                      /\ margin < 250
                      /\ FloatGe(feature, FloatSub(sorted_scores[1][2], FloatOf(150)))
                   THEN "feature" ELSE sorted_scores[1][1],
                   sorted_scores, margin, evidence, docs_ratio, test_ratio, dep_only)

WeightedSorted(sorted_scores, feature, evidence, docs_ratio, test_ratio, dep_only) ==
    WeightedChoice(sorted_scores, feature,
                   RoundScore(sorted_scores[1][2]) - RoundScore(sorted_scores[2][2]),
                   evidence, docs_ratio, test_ratio, dep_only)

WeightedRanked(scores, evidence, docs_ratio, test_ratio, dep_only) ==
    WeightedSorted(SortedScores(scores), scores[1][2], evidence,
                   docs_ratio, test_ratio, dep_only)

\* Stage B of infer_base_type: the weighted scoreboard (weights in thousandths)
WeightedReason(m, text, docs_ratio, test_ratio, dep_only) ==
    LET bugfix_hits   == Hits(text, BugfixTerms)
        refactor_hits == Hits(text, RefactorTerms)
        test_hits     == Hits(text, TestTerms)
        docs_hits     == Hits(text, DocsTerms)
        chore_hits    == Hits(text, ChoreTerms)
        perf_hits     == Hits(text, PerfSecurityTerms)
        all_hits == << <<"bugfix", bugfix_hits>>, <<"refactor", refactor_hits>>,
                       <<"test-only", test_hits>>, <<"docs-only", docs_hits>>,
                       <<"chore", chore_hits>>, <<"perf-security", perf_hits>> >>
        scored   == {i \in DOMAIN all_hits : Len(all_hits[i][2]) > 0}
        evidence == [t \in {all_hits[i][1] : i \in scored} |->
                        all_hits[CHOOSE i \in scored : all_hits[i][1] = t][2]]
        title      == SafeText(Get(m, "title", ""))
        fixTitle   == StartsWith(title, "fix") \/ StartsWith(title, "bugfix")
                      \/ StartsWith(title, "hotfix")
        featPhrase == HasAny(text, {"feature", "feat:", "new feature", "introduce",
                                    "new endpoint", "new api"})
    IN  WeightedRanked(WeightedScores(fixTitle, featPhrase, docs_ratio, test_ratio, dep_only,
                                      Len(all_hits[1][2]), Len(all_hits[2][2]),
                                      Len(all_hits[3][2]), Len(all_hits[4][2]),
                                      Len(all_hits[5][2]), Len(all_hits[6][2])),
                       evidence, docs_ratio, test_ratio, dep_only)

\* mutant: the refactor template is tried before the bugfix template
InferBaseTypeRefactorFirst(m, fs, ft) ==
    LET text       == JoinedText(m, fs, ft)
        paths      == CollectPaths(fs)
        path_count == Max(1, Len(paths))
        docs_paths == Filter(paths, {x \in SeqToSet(paths) : IsDocsPath(x)})
        test_paths == Filter(paths, {x \in SeqToSet(paths) : IsTestPath(x)})
        dep_only   == Get(ft, "dep_only_change", FALSE)
        \* the fall-back ratios are held in 1/10000 like the extractor's
        docs_ratio == Get(ft, "docs_file_ratio", Ratio4(Len(docs_paths), path_count))
        test_ratio == Get(ft, "test_file_ratio", Ratio4(Len(test_paths), path_count))
        code_ratio == Get(ft, "code_file_ratio", 0)
    IN  IF dep_only
        THEN TemplateReason("chore", "all_changed_files_are_dependency_manifests", 10000,
                            "dep_only_change", <<"true">>, docs_ratio, test_ratio)
        ELSE IF Len(paths) > 0 /\ Len(docs_paths) = Len(paths)
        THEN TemplateReason("docs-only", "all_changed_files_are_docs", 10000,
                            "docs_paths", docs_paths, docs_ratio, test_ratio)
        ELSE IF Len(paths) > 0 /\ Len(test_paths) = Len(paths)
        THEN TemplateReason("test-only", "all_changed_files_are_tests", 10000,
                            "test_paths", test_paths, docs_ratio, test_ratio)
        ELSE IF /\ HasAny(text, {"refactor", "cleanup", "restructure", "rename", "extract"})
                /\ ~HasAny(text, {"feature", "new endpoint", "new api"})
        THEN TemplateReason("refactor", "template_strong_refactor", 8500,
                            "refactor_template", <<"keyword">>, docs_ratio, test_ratio)
        ELSE IF /\ HasAny(text, {"bugfix", "hotfix", "regression", "fix ", "fix:"})
                /\ ~HasAny(text, {"new feature", "introduce", "implement new"})
                /\ code_ratio >= 2500
        THEN TemplateReason("bugfix", "template_strong_bugfix", 9000,
                            "bugfix_template", <<"keyword+code_ratio">>, docs_ratio, test_ratio)
        ELSE IF HasAny(text, {"snyk", "cve", "vulnerability", "security patch"})
        THEN TemplateReason("perf-security", "template_strong_security", 8500,
                            "security_template", <<"keyword">>, docs_ratio, test_ratio)
        ELSE WeightedReason(m, text, docs_ratio, test_ratio, dep_only)

\* mutant: the dependency-only template is missing
InferBaseTypeNoDepTemplate(m, fs, ft) ==
    LET text       == JoinedText(m, fs, ft)
        paths      == CollectPaths(fs)
        path_count == Max(1, Len(paths))
        docs_paths == Filter(paths, {x \in SeqToSet(paths) : IsDocsPath(x)})
        test_paths == Filter(paths, {x \in SeqToSet(paths) : IsTestPath(x)})
        dep_only   == Get(ft, "dep_only_change", FALSE)
        \* the fall-back ratios are held in 1/10000 like the extractor's
        docs_ratio == Get(ft, "docs_file_ratio", Ratio4(Len(docs_paths), path_count))
        test_ratio == Get(ft, "test_file_ratio", Ratio4(Len(test_paths), path_count))
        code_ratio == Get(ft, "code_file_ratio", 0)
    IN  IF Len(paths) > 0 /\ Len(docs_paths) = Len(paths)
        THEN TemplateReason("docs-only", "all_changed_files_are_docs", 10000,
                            "docs_paths", docs_paths, docs_ratio, test_ratio)
        ELSE IF Len(paths) > 0 /\ Len(test_paths) = Len(paths)
        THEN TemplateReason("test-only", "all_changed_files_are_tests", 10000,
                            "test_paths", test_paths, docs_ratio, test_ratio)
        ELSE IF /\ HasAny(text, {"bugfix", "hotfix", "regression", "fix ", "fix:"})
                /\ ~HasAny(text, {"new feature", "introduce", "implement new"})
                /\ code_ratio >= 2500
        THEN TemplateReason("bugfix", "template_strong_bugfix", 9000,
                            "bugfix_template", <<"keyword+code_ratio">>, docs_ratio, test_ratio)
        ELSE IF /\ HasAny(text, {"refactor", "cleanup", "restructure", "rename", "extract"})
                /\ ~HasAny(text, {"feature", "new endpoint", "new api"})
        THEN TemplateReason("refactor", "template_strong_refactor", 8500,
                            "refactor_template", <<"keyword">>, docs_ratio, test_ratio)
        ELSE IF HasAny(text, {"snyk", "cve", "vulnerability", "security patch"})
        THEN TemplateReason("perf-security", "template_strong_security", 8500,
                            "security_template", <<"keyword">>, docs_ratio, test_ratio)
        ELSE WeightedReason(m, text, docs_ratio, test_ratio, dep_only)

\* infer_base_type: [base_type, reason]
InferBaseType(m, fs, ft) ==
    LET text       == JoinedText(m, fs, ft)
        paths      == CollectPaths(fs)
        path_count == Max(1, Len(paths))
        docs_paths == Filter(paths, {x \in SeqToSet(paths) : IsDocsPath(x)})
        test_paths == Filter(paths, {x \in SeqToSet(paths) : IsTestPath(x)})
        dep_only   == Get(ft, "dep_only_change", FALSE)
        \* the fall-back ratios are held in 1/10000 like the extractor's
        docs_ratio == Get(ft, "docs_file_ratio", Ratio4(Len(docs_paths), path_count))
        test_ratio == Get(ft, "test_file_ratio", Ratio4(Len(test_paths), path_count))
        code_ratio == Get(ft, "code_file_ratio", 0)
    IN  IF dep_only
        THEN TemplateReason("chore", "all_changed_files_are_dependency_manifests", 10000,
                            "dep_only_change", <<"true">>, docs_ratio, test_ratio)
        ELSE IF Len(paths) > 0 /\ Len(docs_paths) = Len(paths)
        THEN TemplateReason("docs-only", "all_changed_files_are_docs", 10000,
                            "docs_paths", docs_paths, docs_ratio, test_ratio)
        ELSE IF Len(paths) > 0 /\ Len(test_paths) = Len(paths)
        THEN TemplateReason("test-only", "all_changed_files_are_tests", 10000,
                            "test_paths", test_paths, docs_ratio, test_ratio)
        ELSE IF /\ HasAny(text, {"bugfix", "hotfix", "regression", "fix ", "fix:"})
                /\ ~HasAny(text, {"new feature", "introduce", "implement new"})
                /\ code_ratio >= 2500
        THEN TemplateReason("bugfix", "template_strong_bugfix", 9000,
                            "bugfix_template", <<"keyword+code_ratio">>, docs_ratio, test_ratio)
        ELSE IF /\ HasAny(text, {"refactor", "cleanup", "restructure", "rename", "extract"})
                /\ ~HasAny(text, {"feature", "new endpoint", "new api"})
        THEN TemplateReason("refactor", "template_strong_refactor", 8500,
                            "refactor_template", <<"keyword">>, docs_ratio, test_ratio)
        ELSE IF HasAny(text, {"snyk", "cve", "vulnerability", "security patch"})
        THEN TemplateReason("perf-security", "template_strong_security", 8500,
                            "security_template", <<"keyword">>, docs_ratio, test_ratio)
        ELSE WeightedReason(m, text, docs_ratio, test_ratio, dep_only)

\* mutant: the deploy-script rules are missing
IsInfraIntentPathNoDeployScripts(p) ==
    \/ p \in {".gitlab-ci.yml", ".gitlab-ci.yaml", "dockerfile", "serverless.yml"}
    \/ StartsWith(p, ".github/workflows/")
    \/ StartsWith(p, "infra/") \/ StartsWith(p, "infrastructure/")
    \/ StartsWith(p, "terraform/") \/ StartsWith(p, "helm/") \/ StartsWith(p, "k8s/")
    \/ StartsWith(p, "lambda/") \/ StartsWith(p, "lambdas/")
    \/ EndsWith(p, ".tf") \/ EndsWith(p, ".tfvars")

\* the path rules of detect_infra_intent_override (lines 280-294)
IsInfraIntentPath(p) ==
    \/ p \in {".gitlab-ci.yml", ".gitlab-ci.yaml", "dockerfile", "serverless.yml"}
    \/ StartsWith(p, ".github/workflows/")
    \/ StartsWith(p, "infra/") \/ StartsWith(p, "infrastructure/")
    \/ StartsWith(p, "terraform/") \/ StartsWith(p, "helm/") \/ StartsWith(p, "k8s/")
    \/ StartsWith(p, "lambda/") \/ StartsWith(p, "lambdas/")
    \/ StartsWith(p, "scripts/deploy") \/ EndsWith(p, "/deploy.sh") \/ p = "deploy.sh"
    \/ EndsWith(p, ".tf") \/ EndsWith(p, ".tfvars")

StrongTerms ==
    <<"codedeploy", "deployment pipeline", "deploy pipeline", "gitlab-ci",
      "github actions", "terraform", "terragrunt", "kubernetes", "k8s", "helm",
      "dockerfile", "infrastructure as code", "serverless", "lambda">>

\* detect_infra_intent_override: [fired, evidence]; sorted(set(evidence)) is the set
DetectInfraIntentOverride(m, fs, ft) ==
    LET text  == JoinedText(m, fs, ft)
        paths == CollectPaths(fs)
        title == SafeText(Get(m, "title", ""))
        evidence ==
            {"term:" \o t : t \in SeqToSet(Hits(text, StrongTerms))}
            \cup {"title:" \o t : t \in SeqToSet(Hits(title, InfraishTerms))}
            \cup {"path:" \o p : p \in SeqToSet(Filter(paths, {x \in SeqToSet(paths) : IsInfraIntentPath(x)}))}
    IN  [fired |-> evidence # {}, evidence |-> evidence]

\* the keyword families of detect_capability_tags, in the order they are tried
CapabilityFamilies ==
    <<[tag |-> "infra.k8s", terms |-> <<"k8s", "kubernetes", "helm", "cluster">>],
      [tag |-> "infra.cicd",
       terms |-> <<"ci/cd", "pipeline", "gitlab-ci", "github actions", "jenkins",
                   "codedeploy", "deploy", "deployment", "release", "rollout",
                   "lambda", "serverless">>],
      [tag |-> "observability",
       terms |-> <<"observability", "prometheus", "grafana", "datadog", "tracing",
                   "metrics", "newrelic">>],
      [tag |-> "deps.update",
       terms |-> <<"dependency", "deps", "bump", "renovate", "package-lock",
                   "pnpm-lock", "poetry.lock">>],
      [tag |-> "security.sca", terms |-> <<"snyk", "sca", "dependency scan">>],
      [tag |-> "security.auth",
       terms |-> <<"auth", "oauth", "jwt", "token", "rbac", "authorization">>],
      [tag |-> "data.migration",
       terms |-> <<"migration", "schema", "alembic", "flyway", "liquibase">>],
      [tag |-> "api.contract",
       terms |-> <<"openapi", "swagger", "api contract", "graphql schema">>],
      [tag |-> "performance",
       terms |-> <<"latency", "throughput", "performance", "perf">>]>>

\* detect_capability_tags: [tags, evidence]; sorted(tags) is the set, and
\* evidence maps a tag to sorted(set(hits)), a set
DetectCapabilityTags(m, fs, ft, final_type) ==
    LET text  == JoinedText(m, fs, ft)
        paths == CollectPaths(fs)
        IsTf(p) == EndsWith(p, ".tf")
        redis == IF Contains(text, "redis")
                 THEN SeqToSet(Hits(text, <<"redis", "cache">>)) ELSE {}
        tf    == SeqToSet(Filter(paths, {x \in SeqToSet(paths) : IsTf(x)}))
                 \cup SeqToSet(Hits(text, <<"terraform", "terragrunt">>))
        fam   == [i \in DOMAIN CapabilityFamilies |->
                     SeqToSet(Hits(text, CapabilityFamilies[i].terms))]
        general == Get(ft, "infra_signal_score", 0) >= 1 \/ final_type = "infra"
        keyword ==
            (IF redis # {} THEN {"infra.redis"} ELSE {})
            \cup (IF tf # {} THEN {"infra.terraform"} ELSE {})
            \cup {CapabilityFamilies[i].tag : i \in {j \in DOMAIN fam : fam[j] # {}}}
        tags == keyword \cup (IF general THEN {"infra.general"} ELSE {})
        HitsOf(tag) ==
            CASE tag = "infra.redis"     -> redis
              [] tag = "infra.terraform" -> tf
              [] tag = "infra.general"   -> {<<"infra_signal=", Get(ft, "infra_signal_score", 0)>>}
              [] OTHER -> fam[CHOOSE i \in DOMAIN fam : CapabilityFamilies[i].tag = tag]
    IN  [tags |-> tags, evidence |-> [t \in tags |-> HitsOf(t)]]

\* mutant: a churn of exactly 1500 is a large change
DetectRiskTagsInclusive(m, fs, ft, capability_tags, final_type) ==
    LET text == JoinedText(m, fs, ft)
    IN  (IF \E t \in capability_tags : StartsWith(t, "security.")
         THEN {"risk.security"} ELSE {})
        \cup (IF "data.migration" \in capability_tags THEN {"risk.migration"} ELSE {})
        \cup (IF HasAny(text, {"breaking", "breaking change", "backward incompatible"})
              THEN {"risk.breaking-change"} ELSE {})
        \cup (IF final_type = "infra" \/ \E t \in capability_tags : StartsWith(t, "infra.")
              THEN {"risk.infra"} ELSE {})
        \cup (IF Get(ft, "churn", 0) >= 1500 THEN {"risk.large-change"} ELSE {})

\* detect_risk_tags; sorted(risks) is the set
DetectRiskTags(m, fs, ft, capability_tags, final_type) ==
    LET text == JoinedText(m, fs, ft)
    IN  (IF \E t \in capability_tags : StartsWith(t, "security.")
         THEN {"risk.security"} ELSE {})
        \cup (IF "data.migration" \in capability_tags THEN {"risk.migration"} ELSE {})
        \cup (IF HasAny(text, {"breaking", "breaking change", "backward incompatible"})
              THEN {"risk.breaking-change"} ELSE {})
        \cup (IF final_type = "infra" \/ \E t \in capability_tags : StartsWith(t, "infra.")
              THEN {"risk.infra"} ELSE {})
        \cup (IF Get(ft, "churn", 0) > 1500 THEN {"risk.large-change"} ELSE {})

\* mutant: the medium floor is the review threshold itself, not clamped
ConfidenceBandRawFloor(score, needs_review_threshold) ==
    IF score >= 800 THEN "high"
    ELSE IF score >= needs_review_threshold THEN "medium"
    ELSE "low"

\* mutant: the medium floor is 0.75 whatever the review threshold is
ConfidenceBandFixedFloor(score, needs_review_threshold) ==
    IF score >= 800 THEN "high"
    ELSE IF score >= 750 THEN "medium"
    ELSE "low"

\* confidence_band; score and threshold in thousandths
ConfidenceBand(score, needs_review_threshold) ==
    LET medium_floor == Max(450, Min(800, needs_review_threshold))
    IN  IF score >= 800 THEN "high"
        ELSE IF score >= medium_floor THEN "medium"
        ELSE "low"

\* tuple(sorted([a, b])) of two labels, by the order of Python str comparison
\* restricted to the labels a scoreboard can hold
LabelOrder ==
    <<"bugfix", "chore", "docs-only", "feature", "infra", "perf-security",
      "refactor", "test-only">>

SortedPair(a, b) ==
    LET Idx(t) == CHOOSE i \in DOMAIN LabelOrder : LabelOrder[i] = t
    IN  IF Idx(a) <= Idx(b) THEN <<a, b>> ELSE <<b, a>>

\* mutant: the bugfix/feature pair is penalized up to a margin of 1.0
ConflictPenaltyNoExemption(base_type, scoreboard, margin) ==
    IF Len(scoreboard) < 2 THEN [penalty |-> 0, pairs |-> <<>>]
    ELSE LET top_label    == scoreboard[1][1]
             second_label == scoreboard[2][1]
             pair         == SortedPair(top_label, second_label)
             penalty ==
                 CASE pair = <<"bugfix", "feature">>       -> 70
                   [] pair = <<"feature", "infra">>        -> 120
                   [] pair = <<"chore", "perf-security">>  -> 100
                   [] pair = <<"feature", "refactor">>     -> 80
                   [] OTHER                                -> 0
         IN  IF margin >= 1000 THEN [penalty |-> 0, pairs |-> <<>>]
             ELSE IF penalty <= 0 THEN [penalty |-> 0, pairs |-> <<>>]
             ELSE [penalty |-> penalty, pairs |-> << <<top_label, second_label>> >>]

\* _conflict_penalty: [penalty, pairs]
ConflictPenalty(base_type, scoreboard, margin) ==
    IF Len(scoreboard) < 2 THEN [penalty |-> 0, pairs |-> <<>>]
    ELSE LET top_label    == scoreboard[1][1]
             second_label == scoreboard[2][1]
             pair         == SortedPair(top_label, second_label)
             penalty ==
                 CASE pair = <<"bugfix", "feature">>       -> 70
                   [] pair = <<"feature", "infra">>        -> 120
                   [] pair = <<"chore", "perf-security">>  -> 100
                   [] pair = <<"feature", "refactor">>     -> 80
                   [] OTHER                                -> 0
         IN  IF margin >= 1000 THEN [penalty |-> 0, pairs |-> <<>>]
             ELSE IF pair = <<"bugfix", "feature">> /\ margin >= 750
             THEN [penalty |-> 0, pairs |-> <<>>]
             ELSE IF penalty <= 0 THEN [penalty |-> 0, pairs |-> <<>>]
             ELSE [penalty |-> penalty, pairs |-> << <<top_label, second_label>> >>]

SupportAliases(type) ==
    CASE type = "feature"       -> {"feature", "enhancement"}
      [] type = "bugfix"        -> {"bug", "bugfix", "fix", "defect", "hotfix"}
      [] type = "refactor"      -> {"refactor", "cleanup"}
      [] type = "test-only"     -> {"test", "tests"}
      [] type = "docs-only"     -> {"docs", "documentation"}
      [] type = "chore"         -> {"chore", "maintenance", "dependencies", "deps"}
      [] type = "perf-security" -> {"security", "perf", "performance", "snyk", "vulnerability"}
      [] type = "infra"         -> {"infra", "platform", "devops", "sre"}
      [] OTHER                  -> {}

\* _label_support_stats: [support, conflict]
LabelSupportStats(m, final_type) ==
    LET raw      == Get(m, "labels", <<>>)
        NonBlank(l) == Strip(l) # ""
        kept     == Filter(raw, {x \in SeqToSet(raw) : NonBlank(x)})
        labels   == [i \in DOMAIN kept |-> Lower(Strip(kept[i]))]
        Supports(l)  == l \in SupportAliases(final_type)
        Conflicts(l) == \E k \in PR_TYPES : k # final_type /\ l \in SupportAliases(k)
    IN  [support  |-> CountIf(labels, {x \in SeqToSet(labels) : Supports(x)}),
         conflict |-> CountIf(labels, {x \in SeqToSet(labels) : Conflicts(x)})]

\* mutant: the ceiling is not applied
ClampConfidenceNoCeiling(raw) == Max(300, raw)

\* max(0.3, min(0.95, round(score, 3))) (compute_confidence, line 530); the
\* adjustments are multiples of 0.01, so rounding to 3 decimals is exact
ClampConfidence(raw) == Max(300, Min(950, raw))

\* compute_confidence: [score, factors]; score in thousandths
ComputeConfidence(base_type, final_type, needs_review_threshold, m, fs, ft, base_reason, capability_tags, infra_intent_override_applied) ==
    LET text            == JoinedText(m, fs, ft)
        paths           == CollectPaths(fs)
        has_description == Get(ft, "has_description", FALSE)
        label_count     == Get(ft, "label_count", 0)
        docs_ratio      == Get(ft, "docs_file_ratio", 0)
        test_ratio      == Get(ft, "test_file_ratio", 0)
        dep_only        == Get(ft, "dep_only_change", FALSE)
        code_ratio      == Get(ft, "code_file_ratio", 0)
        commit_count    == Get(ft, "commit_count", 0)
        richness ==
            (IF has_description THEN 1 ELSE 0) + (IF label_count > 0 THEN 1 ELSE 0)
            + (IF commit_count > 0 THEN 1 ELSE 0) + (IF Len(paths) > 1 THEN 1 ELSE 0)
        margin    == Get(base_reason, "top_margin", 0)
        certainty == Get(base_reason, "certainty", "low")
        evidence_classes == Cardinality(DOMAIN Get(base_reason, "evidence", <<>>))
        conflict  == ConflictPenalty(base_type, Get(base_reason, "scoreboard", <<>>), margin)
        labels    == LabelSupportStats(m, final_type)
        ntags     == Cardinality(capability_tags)
        raw ==
            520
            + 50 * richness
            + (IF base_type \in {"docs-only", "test-only"} THEN 160 ELSE 0)
            + (IF final_type \in {"bugfix", "refactor", "chore", "perf-security", "infra"}
               THEN 100 ELSE 0)
            + (IF margin >= 2000 THEN 180
               ELSE IF margin >= 1000 THEN 110
               ELSE IF margin >= 500 THEN 50 ELSE -80)
            + (IF certainty = "high" THEN 180
               ELSE IF certainty = "medium" THEN 70 ELSE -30)
            + (IF dep_only /\ base_type = "chore" THEN 220 ELSE 0)
            + (IF docs_ratio >= 9000 /\ base_type = "docs-only" THEN 200 ELSE 0)
            + (IF test_ratio >= 9000 /\ base_type = "test-only" THEN 180 ELSE 0)
            - (IF code_ratio > 6000 /\ base_type \in {"docs-only", "test-only"}
               THEN 200 ELSE 0)
            + (IF ntags > 0 THEN Min(160, 20 * ntags) ELSE 0)
            - (IF margin < 600 /\ evidence_classes >= 3 THEN 100 ELSE 0)
            - conflict.penalty
            + Min(80, 40 * labels.support)
            - Min(120, 40 * labels.conflict)
            - (IF /\ base_type = "feature" /\ ntags = 0
                  /\ Len(paths) <= 1 /\ Len(text) < 120
               THEN 80 ELSE 0)
            + (IF infra_intent_override_applied THEN 60 ELSE 0)
            - (IF ~has_description /\ label_count = 0 /\ commit_count = 0
               THEN 80 ELSE 0)
        score == ClampConfidence(raw)
    IN  [score   |-> score,
         factors |-> [richness                      |-> richness,
                      top_margin                    |-> margin,
                      certainty                     |-> certainty,
                      capability_tag_count          |-> ntags,
                      dep_only_change               |-> dep_only,
                      docs_ratio                    |-> docs_ratio,
                      test_ratio                    |-> test_ratio,
                      code_ratio                    |-> code_ratio,
                      label_support_count           |-> labels.support,
                      label_conflict_count          |-> labels.conflict,
                      conflict_pairs                |-> conflict.pairs,
                      infra_intent_override_applied |-> infra_intent_override_applied,
                      confidence_band |-> ConfidenceBand(score, needs_review_threshold)]]

(***************************************************************************)
(* complexity_score adds Python floats. Every component is a multiple of   *)
(* 1/3000 (the common denominator of /250, /10, /8, /20, /10, /5 and /3)   *)
(* up to rounding error, so a float is held exactly as <<n, d>>: the value *)
(* n/3000 + d * 2^-62 / 375. Quotients and sums round to the nearest       *)
(* binary64, ties to even.                                                 *)
(***************************************************************************)
\* 2^k modulo 375 for k = 0 .. 59, as a table
Pow2Mod375Table ==
    <<1, 2, 4, 8, 16, 32, 64, 128, 256, 137, 274, 173, 346, 317, 259,
      143, 286, 197, 19, 38, 76, 152, 304, 233, 91, 182, 364, 353, 331, 287,
      199, 23, 46, 92, 184, 368, 361, 347, 319, 263, 151, 302, 229, 83, 166,
      332, 289, 203, 31, 62, 124, 248, 121, 242, 109, 218, 61, 122, 244, 113>>

Pow2Mod375(k) == Pow2Mod375Table[k + 1]

\* floor(log2(n / 3000)) of a float near n/3000, 12 <= n < 48000
ScoreExponent(n, d) ==
    LET e == IF n >= 24000 THEN 3 ELSE IF n >= 12000 THEN 2 ELSE IF n >= 6000 THEN 1
             ELSE IF n >= 3000 THEN 0 ELSE IF n >= 1500 THEN -1 ELSE IF n >= 750 THEN -2
             ELSE IF n >= 375 THEN -3 ELSE IF n >= 188 THEN -4 ELSE IF n >= 94 THEN -5
             ELSE IF n >= 47 THEN -6 ELSE IF n >= 24 THEN -7 ELSE -8
    IN  IF d < 0 /\ n \in {24000, 12000, 6000, 3000, 1500, 750, 375} THEN e - 1 ELSE e

\* n/3000 + d * 2^-62 / 375 modulo 2 * ulp: n/3000 is n * 2^59 units
ScoreResidue(n, d, e, ulp) ==
    (Pow2(e + 11) * (((n % 375) * Pow2Mod375(48 - e)) % 375) + d) % (2 * ulp)

\* rounding at exponent e, where one ulp is 2^(e - 52) = 375 * 2^(e + 10) units
ScoreRoundAt(n, d, e) ==
    FloatNearest(n, d, 375 * Pow2(e + 10), ScoreResidue(n, d, e, 375 * Pow2(e + 10)))

\* the binary64 nearest to the real number n/3000 + d * 2^-62 / 375
ScoreRound(n, d) ==
    IF n = 0 THEN <<0, 0>> ELSE ScoreRoundAt(n, d, ScoreExponent(n, d))

ScoreLess(a, b) == a[1] < b[1] \/ (a[1] = b[1] /\ a[2] < b[2])

\* score += min(count / divisor, cap): per is 3000 / divisor, cap in 1/3000
ScorePlus(score, count, per, cap) ==
    IF count * per >= cap
    THEN ScoreRound(score[1] + cap, score[2])
    ELSE ScoreRound(score[1] + count * per, score[2] + ScoreRound(count * per, 0)[2])

\* the tier of a score (lines 559-567)
ComplexityLevel(score) ==
    [score |-> score,
     level |-> IF ScoreLess(score, <<4500, 0>>) THEN "Very Low"
               ELSE IF ScoreLess(score, <<9000, 0>>) THEN "Low"
               ELSE IF ScoreLess(score, <<15000, 0>>) THEN "Medium"
               ELSE IF ScoreLess(score, <<21000, 0>>) THEN "High"
               ELSE "Very High"]

\* complexity_score: [score, level]; the score a float in 1/3000
ComplexityScore(ft) ==
    ComplexityLevel(
        ScorePlus(ScorePlus(ScorePlus(ScorePlus(ScorePlus(ScorePlus(ScorePlus(<<0, 0>>,
            ft["churn"], 12, 12000),
            ft["files_changed"], 300, 6000),
            ft["commit_count"], 375, 4500),
            ft["review_comment_count"], 150, 4500),
            ft["review_thread_count"], 300, 3000),
            ft["unresolved_thread_count"], 600, 3000),
            ft["pipeline_failed_count"], 1000, 3000))

\* the keys classify reads with features[...] (a KeyError when absent), in
\* the order the code reaches them: line 578, complexity_score (610), line 629
SubscriptedKeys ==
    <<"infra_signal_score", "churn", "files_changed", "commit_count",
      "review_comment_count", "review_thread_count", "unresolved_thread_count",
      "pipeline_failed_count", "infra_signal_level">>

\* the key of the KeyError classify raises on these features, "" when none
FirstMissingKey(ft) ==
    LET missing == {i \in DOMAIN SubscriptedKeys : SubscriptedKeys[i] \notin DOMAIN ft}
    IN  IF missing = {} THEN ""
        ELSE SubscriptedKeys[CHOOSE i \in missing : \A j \in missing : i <= j]

\* mutant: the boundary value no longer overrides
ScoreOverrideStrict(infra_signal_score, infra_strong_threshold) ==
    infra_signal_score > infra_strong_threshold

\* infra_signal_score >= config.infra_strong_threshold (classify, line 580)
ScoreOverride(infra_signal_score, infra_strong_threshold) ==
    infra_signal_score >= infra_strong_threshold

\* is_infra_related (classify, lines 579 and 594)
IsInfraRelated(infra_signal_score, infra_weak_threshold, infra_intent_override) ==
    infra_signal_score >= infra_weak_threshold \/ infra_intent_override

\* mutant: the override writes a label outside PR_TYPES
FinalTypeTypo(base_type, score_override, intent_override_applied) ==
    IF score_override \/ intent_override_applied THEN "infrastructure" ELSE base_type

\* mutant: only the score threshold overrides the base type
FinalTypeScoreOnly(base_type, score_override, intent_override_applied) ==
    IF score_override THEN "infra" ELSE base_type

\* final_type (classify, line 592)
FinalType(base_type, score_override, intent_override_applied) ==
    IF score_override \/ intent_override_applied THEN "infra" ELSE base_type

\* mutant: a confidence equal to the threshold is flagged too
NeedsReviewInclusive(confidence, needs_review_threshold) ==
    confidence <= needs_review_threshold

\* needs_review (classify, line 612)
NeedsReview(confidence, needs_review_threshold) == confidence < needs_review_threshold

\* mutant: any evidence is sufficient for every base type
IntentOverrideUngated(base_type, infra_intent_override, infra_path_strong) ==
    infra_intent_override

\* whether the intent override changes final_type (classify, lines 585-590)
IntentOverrideApplied(base_type, infra_intent_override, infra_path_strong) ==
    IF infra_intent_override
    THEN IF base_type \in {"bugfix", "chore"} THEN infra_path_strong ELSE TRUE
    ELSE FALSE

\* mutant: the label conflict is reported before the class-signal conflict
WhyNeedsReviewLabelsFirst(needs_review, base_reason, confidence_factors, ft) ==
    IF ~needs_review THEN <<>>
    ELSE LET why ==
                 (IF Get(base_reason, "top_margin", 0) < 800
                  THEN <<"low_top2_margin">> ELSE <<>>)
                 \o (IF Get(confidence_factors, "label_conflict_count", 0) > 0
                     THEN <<"conflicting_labels">> ELSE <<>>)
                 \o (IF Len(Get(confidence_factors, "conflict_pairs", <<>>)) > 0
                     THEN <<"conflicting_class_signals">> ELSE <<>>)
                 \o (IF ~Get(ft, "has_description", FALSE)
                     THEN <<"missing_description">> ELSE <<>>)
         IN  IF Len(why) = 0 THEN <<"composite_low_confidence">> ELSE why

\* the why_needs_review list (classify, lines 613-624)
WhyNeedsReview(needs_review, base_reason, confidence_factors, ft) ==
    IF ~needs_review THEN <<>>
    ELSE LET why ==
                 (IF Get(base_reason, "top_margin", 0) < 800
                  THEN <<"low_top2_margin">> ELSE <<>>)
                 \o (IF Len(Get(confidence_factors, "conflict_pairs", <<>>)) > 0
                     THEN <<"conflicting_class_signals">> ELSE <<>>)
                 \o (IF Get(confidence_factors, "label_conflict_count", 0) > 0
                     THEN <<"conflicting_labels">> ELSE <<>>)
                 \o (IF ~Get(ft, "has_description", FALSE)
                     THEN <<"missing_description">> ELSE <<>>)
         IN  IF Len(why) = 0 THEN <<"composite_low_confidence">> ELSE why

\* the result dict classify returns (lines 626-668); classified_at (the clock)
\* is left out of the modelled result
ClassifyResult(ft, c_cfg, base, intent, infra_path_strong, intent_override_applied, final_type, capability, risk_tags, conf) ==
    LET complexity   == ComplexityScore(ft)
        needs_review == NeedsReview(conf.score, c_cfg.needs_review_threshold)
    IN  [base_type                 |-> base.base_type,
         final_type                |-> final_type,
         is_infra_related          |->
            IsInfraRelated(ft["infra_signal_score"], c_cfg.infra_weak_threshold, intent.fired),
         infra_override_applied    |->
            ScoreOverride(ft["infra_signal_score"], c_cfg.infra_strong_threshold)
                \/ intent_override_applied,
         complexity_level          |-> complexity.level,
         complexity_score          |-> complexity.score,
         capability_tags           |-> capability.tags,
         risk_tags                 |-> risk_tags,
         classification_confidence |-> conf.score,
         confidence_band |-> ConfidenceBand(conf.score, c_cfg.needs_review_threshold),
         needs_review              |-> needs_review,
         classifier_version        |-> CLASSIFIER_VERSION,
         rationale |->
            [base_reason             |-> base.reason,
             infra_signal_score      |-> ft["infra_signal_score"],
             infra_signal_level      |-> ft["infra_signal_level"],
             matched_infra_tickets   |-> Get(ft, "matched_infra_tickets", <<>>),
             matched_infra_keywords  |-> Get(ft, "matched_infra_keywords", {}),
             matched_infra_labels    |-> Get(ft, "matched_infra_labels", {}),
             infra_intent_override   |-> intent.fired,
             infra_intent_evidence   |-> intent.evidence,
             infra_path_strong       |-> infra_path_strong,
             intent_override_applied |-> intent_override_applied,
             capability_tag_evidence |-> capability.evidence,
             risk_tags               |-> risk_tags,
             confidence_factors      |-> conf.factors,
             needs_review_threshold  |-> c_cfg.needs_review_threshold,
             why_needs_review        |->
                WhyNeedsReview(needs_review, base.reason, conf.factors, ft),
             complexity_components |->
                [churn                   |-> ft["churn"],
                 files_changed           |-> ft["files_changed"],
                 commit_count            |-> ft["commit_count"],
                 review_comment_count    |-> ft["review_comment_count"],
                 review_thread_count     |-> ft["review_thread_count"],
                 unresolved_thread_count |-> ft["unresolved_thread_count"],
                 pipeline_failed_count   |-> ft["pipeline_failed_count"]]]]

\* classify from the capability tags on (lines 596-624): risk tags and
\* confidence for the final type already decided
ClassifyTagged(m, fs, ft, c_cfg, base, intent, infra_path_strong, intent_override_applied, final_type, capability) ==
    ClassifyResult(ft, c_cfg, base, intent, infra_path_strong, intent_override_applied,
                   final_type, capability,
                   DetectRiskTags(m, fs, ft, capability.tags, final_type),
                   ComputeConfidence(base.base_type, final_type,
                                     c_cfg.needs_review_threshold, m, fs, ft, base.reason,
                                     capability.tags, intent_override_applied))

\* classify from the override decision on (lines 578-596), given the base
\* classification and the intent evidence
ClassifyOverride(m, fs, ft, c_cfg, base, intent, infra_path_strong, intent_override_applied) ==
    ClassifyTagged(m, fs, ft, c_cfg, base, intent, infra_path_strong,
                   intent_override_applied,
                   FinalType(base.base_type,
                             ScoreOverride(ft["infra_signal_score"],
                                           c_cfg.infra_strong_threshold),
                             intent_override_applied),
                   DetectCapabilityTags(m, fs, ft,
                       FinalType(base.base_type,
                                 ScoreOverride(ft["infra_signal_score"],
                                               c_cfg.infra_strong_threshold),
                                 intent_override_applied)))

\* classify lines 582-590, given the base classification and the intent evidence
ClassifyIntent(m, fs, ft, c_cfg, base, intent) ==
    ClassifyOverride(m, fs, ft, c_cfg, base, intent,
                     \E e \in intent.evidence : StartsWith(e, "path:"),
                     IntentOverrideApplied(base.base_type, intent.fired,
                         \E e \in intent.evidence : StartsWith(e, "path:")))

\* classify, when no subscripted key is missing
Classify(m, fs, ft, c_cfg) ==
    ClassifyIntent(m, fs, ft, c_cfg, InferBaseType(m, fs, ft),
                   DetectInfraIntentOverride(m, fs, ft))

(***************************************************************************)
(* Inputs.                                                                 *)
(***************************************************************************)
Titles ==
    {"Fix bug", "Add payment webhook", "OPS-45 Update deployment runbook",
     "Refactor parser", "Deploy lambda", "Bump deps for release", "Snyk auth patch"}

Descriptions == {"", "touch deployment script", "rollback lambda"}

LabelLists == {<<>>, <<"bug">>, <<"infra", "platform">>}

CommitLists == {<<>>, <<[title |-> "wip"]>>}

FilePool ==
    <<[new_path |-> "src/a.py",              additions |-> 3,    deletions |-> 1],
      [new_path |-> "README.md",             additions |-> 40,   deletions |-> 10],
      [new_path |-> "docs/requirements.txt", additions |-> 2,    deletions |-> 2],
      [new_path |-> "package-lock.json",     additions |-> 1600, deletions |-> 10],
      [new_path |-> ".gitlab-ci.yml",        additions |-> 5,    deletions |-> 1],
      [new_path |-> "tests/test_a.py",       additions |-> 12,   deletions |-> 0],
      [old_path |-> "scripts/deploy.sh",     additions |-> 0,    deletions |-> 6]>>

\* the file lists: the sub-lists of FilePool of at most MaxFiles files
FileLists ==
    {[i \in 1..Cardinality(S) |->
        FilePool[CHOOSE k \in S : Cardinality({j \in S : j < k}) = i - 1]] :
     S \in {T \in SUBSET DOMAIN FilePool : Cardinality(T) <= MaxFiles}}

\* (infra_strong_threshold, infra_weak_threshold, needs_review_threshold): the
\* infra thresholds in tenths, the review threshold in thousandths. 4.0, 1.5
\* and 0.75 are the defaults; neither load_partial_settings nor
\* ClassificationConfig rejects a weak threshold above the strong one.
Configs == {<<40, 15, 750>>, <<40, 15, 900>>, <<40, 15, 450>>, <<15, 40, 750>>}

NoFeatures == [none |-> TRUE]
NoResult == [none |-> TRUE]

(***************************************************************************)
(* The state machine: a merge request is ingested, its features are        *)
(* extracted (pipeline.py 275-281), and it is classified (pipeline.py 283).*)
(***************************************************************************)
Init ==
    /\ mr \in [title : Titles, description : Descriptions, labels : LabelLists]
    /\ commits \in CommitLists
    /\ files \in FileLists
    /\ discussions = [thread_count |-> 0, note_count |-> 0, unresolved_count |-> 0]
    /\ pipelines = [failed_count |-> 0]
    /\ \E c \in Configs :
          /\ settings = [infra_strong_threshold |-> c[1], infra_weak_threshold |-> c[2]]
          /\ config = [infra_strong_threshold |-> c[1],
                       infra_weak_threshold   |-> c[2],
                       needs_review_threshold |-> c[3]]
    /\ features = NoFeatures
    /\ pc = "ingested"
    /\ outcome = "none"
    /\ result = NoResult
    /\ raisedKey = ""
    /\ NoWorkers
    /\ NoStore
    /\ NoEnrich
    /\ NoSync

ExtractFeatures ==
    /\ pc = "ingested"
    /\ features' = Extract(mr, commits, files, discussions, pipelines, settings)
    /\ pc' = "extracted"
    /\ UNCHANGED <<mr, commits, files, discussions, pipelines, settings, config,
                   outcome, result, raisedKey, workerVars, storeVars, enrichVars, syncVars>>

\* classify(mr, files, features, config): a KeyError on the first subscripted
\* key that is missing, the result dict otherwise
ClassifyCall ==
    /\ pc = "extracted"
    /\ IF FirstMissingKey(features) # ""
       THEN /\ outcome' = "raised"
            /\ raisedKey' = FirstMissingKey(features)
            /\ UNCHANGED result
       ELSE /\ outcome' = "returned"
            /\ result' = Classify(mr, files, features, config)
            /\ UNCHANGED raisedKey
    /\ pc' = "classified"
    /\ UNCHANGED <<mr, commits, files, discussions, pipelines, settings, config, features,
                   workerVars, storeVars, enrichVars, syncVars>>

Next == ExtractFeatures \/ ClassifyCall

Spec == Init /\ [][Next]_vars

(***************************************************************************)
(* Callers that hand classify a hand-built feature dict with keys left out *)
(* (tests/test_infra_classifier.py, test_threshold_boundaries).            *)
(***************************************************************************)
MaxOmitted == 1

OmitFeatureKey(k) ==
    /\ pc = "extracted"
    /\ k \in DOMAIN features
    /\ Cardinality(DOMAIN Extract(mr, commits, files, discussions, pipelines, settings))
         - Cardinality(DOMAIN features) < MaxOmitted
    /\ features' = [x \in DOMAIN features \ {k} |-> features[x]]
    /\ UNCHANGED <<mr, commits, files, discussions, pipelines, settings, config,
                   pc, outcome, result, raisedKey, workerVars, storeVars, enrichVars, syncVars>>

InitPartial ==
    /\ Init
    /\ mr.title = "Fix bug"
    /\ mr.labels = <<"bug">>
    /\ Len(files) = 1 /\ RawPath(files[1]) \in {"src/a.py", "package-lock.json"}
    /\ Len(commits) = 1
    /\ config.needs_review_threshold = 750

NextPartial == Next \/ \E k \in DOMAIN features : OmitFeatureKey(k)

SpecPartial == InitPartial /\ [][NextPartial]_vars

(***************************************************************************)
(* Claims.                                                                 *)
(***************************************************************************)
Returned == pc = "classified" /\ outcome = "returned"

\* the changed paths as classify sees them
ChangedPaths == SeqToSet(CollectPaths(files))

\* C1: whenever classify returns, final_type is one of the eight labels
\* feature, bugfix, refactor, test-only, docs-only, chore, perf-security, infra.
C1_ClosedLabelSet ==
    Returned =>
        result.final_type \in {"feature", "bugfix", "refactor", "test-only", "docs-only",
                               "chore", "perf-security", "infra"}

\* a security-template base type relabelled infra by an override
C1_Witness ==
    Returned /\ result.base_type = "perf-security" /\ result.final_type = "infra"

\* C2: whatever bonuses and penalties apply, the returned
\* classification_confidence lies in [0.30, 0.95].
C2_BoundedConfidence ==
    Returned =>
        /\ result.classification_confidence >= 300
        /\ result.classification_confidence <= 950

\* all four richness signals, a template margin and the intent bonus add up past
\* the ceiling
C2_Witness ==
    /\ Returned
    /\ result.classification_confidence = 950
    /\ result.rationale.confidence_factors.richness = 4
    /\ result.rationale.confidence_factors.infra_intent_override_applied
    /\ result.rationale.confidence_factors.top_margin >= 2000

\* C3: needs_review == (classification_confidence < needs_review_threshold),
\* and why_needs_review is non-empty whenever needs_review is true.
C3_NeedsReviewConsistency ==
    Returned =>
        /\ ( result.needs_review
               <=> (result.classification_confidence < config.needs_review_threshold) )
        /\ ( result.needs_review => Len(result.rationale.why_needs_review) > 0 )

\* flagged for review with none of the four specific reasons holding
C3_Witness ==
    /\ Returned
    /\ result.needs_review
    /\ result.rationale.why_needs_review = <<"composite_low_confidence">>

\* C4: whenever infra_signal_score >= infra_strong_threshold (boundary
\* included), final_type is infra and infra_override_applied is true, for every
\* base type and with or without infra-intent evidence.
C4_OverridePrecedence ==
    Returned /\ features["infra_signal_score"] >= config.infra_strong_threshold =>
        /\ result.final_type = "infra"
        /\ result.infra_override_applied

\* the boundary score on a bugfix without any infra-intent evidence
C4_Witness ==
    /\ Returned
    /\ features["infra_signal_score"] = config.infra_strong_threshold
    /\ result.base_type = "bugfix"
    /\ ~result.rationale.infra_intent_override
    /\ result.final_type = "infra"

C5_PathEvidence == \E e \in result.rationale.infra_intent_evidence : StartsWith(e, "path:")

\* C5: the intent override is applied exactly when evidence was found and
\* (base_type is neither bugfix nor chore, or some evidence is path-based); so
\* below the strong threshold a text-only hit leaves bugfix and chore
\* unchanged and turns every other base type into infra.
C5_ConditionalOverrideGating ==
    Returned =>
        /\ ( result.rationale.intent_override_applied
               <=> ( /\ result.rationale.infra_intent_override
                     /\ (result.base_type \notin {"bugfix", "chore"} \/ C5_PathEvidence) ) )
        /\ ( ( /\ features["infra_signal_score"] < config.infra_strong_threshold
               /\ result.rationale.infra_intent_override
               /\ ~C5_PathEvidence )
             => IF result.base_type \in {"bugfix", "chore"}
                THEN result.final_type = result.base_type /\ ~result.infra_override_applied
                ELSE result.final_type = "infra" /\ result.infra_override_applied )

\* a bugfix that mentions lambda in its text only keeps its type
C5_Witness ==
    /\ Returned
    /\ result.base_type = "bugfix"
    /\ result.rationale.infra_intent_override
    /\ ~C5_PathEvidence
    /\ features["infra_signal_score"] < config.infra_strong_threshold
    /\ result.final_type = "bugfix"

\* C6: is_infra_related is true whenever final_type is infra, whenever
\* infra_signal_score >= infra_weak_threshold, and whenever the intent override
\* found any evidence.
C6_InfraRelated ==
    Returned =>
        ( ( \/ result.final_type = "infra"
            \/ features["infra_signal_score"] >= config.infra_weak_threshold
            \/ result.rationale.infra_intent_override )
          => result.is_infra_related )

\* the infra path rules as the claim lists them
C7_ListedInfraPath(p) ==
    \/ p \in {".gitlab-ci.yml", ".gitlab-ci.yaml", "dockerfile", "serverless.yml"}
    \/ StartsWith(p, ".github/workflows/")
    \/ StartsWith(p, "infra/") \/ StartsWith(p, "infrastructure/")
    \/ StartsWith(p, "terraform/") \/ StartsWith(p, "helm/") \/ StartsWith(p, "k8s/")
    \/ StartsWith(p, "lambda/") \/ StartsWith(p, "lambdas/")
    \/ StartsWith(p, "scripts/deploy")
    \/ p = "deploy.sh" \/ EndsWith(p, "/deploy.sh")
    \/ EndsWith(p, ".tf") \/ EndsWith(p, ".tfvars")

\* C7: whenever a changed path matches an infra path rule, final_type is infra
\* and infra_override_applied is true, for every base type and also below the
\* strong threshold without any ticket, keyword or label signal.
C7_PathOverride ==
    Returned /\ (\E p \in ChangedPaths : C7_ListedInfraPath(p)) =>
        /\ result.final_type = "infra"
        /\ result.infra_override_applied

\* a chore with no infra signal at all, overridden by a path alone
C7_Witness ==
    /\ Returned
    /\ \E p \in ChangedPaths : C7_ListedInfraPath(p)
    /\ result.base_type \in {"bugfix", "chore"}
    /\ features["infra_signal_score"] = 0
    /\ \A e \in result.rationale.infra_intent_evidence : StartsWith(e, "path:")
    /\ result.final_type = "infra"

C8_AllDocs ==
    /\ ChangedPaths # {}
    /\ \A p \in ChangedPaths : EndsWith(p, ".md") \/ StartsWith(p, "docs/")

\* C8: when every changed path (at least one) ends in .md or starts with
\* docs/, base_type is docs-only with certainty high and top_margin 10.0, the
\* features being the ones derived from the same paths.
C8_AllDocsIsDocsOnly ==
    Returned /\ C8_AllDocs =>
        /\ result.base_type = "docs-only"
        /\ result.rationale.base_reason.certainty = "high"
        /\ result.rationale.base_reason.top_margin = 10000

C9_AllManifests ==
    /\ ChangedPaths # {}
    /\ \A p \in ChangedPaths : Basename(p) \in DepFiles

C9_DepOnlyRecorded ==
    /\ "dep_only_change" \in DOMAIN result.rationale.base_reason.evidence
    /\ result.rationale.base_reason.evidence["dep_only_change"] = <<"true">>
    /\ result.rationale.confidence_factors.dep_only_change

\* C9 as stated: when every changed path (at least one) is a recognized
\* dependency-manifest filename, final_type is chore and the rationale records
\* dep_only_change as true.
C9_AllManifestsIsChore ==
    Returned /\ C9_AllManifests =>
        /\ result.final_type = "chore"
        /\ C9_DepOnlyRecorded

\* C9 as amended: when every changed path (at least one) is a recognized
\* dependency-manifest filename, base_type is chore and the rationale records
\* dep_only_change as true; final_type is chore when infra_signal_score is below
\* the strong threshold and no changed path matches an infra path rule, and it
\* is infra when infra_signal_score reaches the strong threshold.
C9_AllManifestsIsChoreUnlessOverridden ==
    Returned /\ C9_AllManifests =>
        /\ result.base_type = "chore"
        /\ C9_DepOnlyRecorded
        /\ ( ( /\ features["infra_signal_score"] < config.infra_strong_threshold
               /\ ~\E p \in ChangedPaths : C7_ListedInfraPath(p) )
             => result.final_type = "chore" )
        /\ ( features["infra_signal_score"] >= config.infra_strong_threshold
             => result.final_type = "infra" )

\* a lock-file-only change whose title mentions a release keeps the chore type
C9_Witness ==
    /\ Returned
    /\ C9_AllManifests
    /\ result.rationale.infra_intent_override
    /\ features["infra_signal_score"] < config.infra_strong_threshold
    /\ result.final_type = "chore"
    /\ C9_DepOnlyRecorded

\* the FeatureVector keys the claim names as required
C10_RequiredKeys ==
    {"has_description", "label_count", "commit_count", "churn", "code_file_ratio",
     "docs_file_ratio", "dep_only_change", "infra_signal_score"}

\* C10: when a required FeatureVector key is absent, classify fails with an
\* error identifying the missing field and returns no result.
C10_MissingKeyFailsFast ==
    pc = "classified" /\ (\E k \in C10_RequiredKeys : k \notin DOMAIN features) =>
        /\ outcome = "raised"
        /\ raisedKey \in C10_RequiredKeys \ DOMAIN features

\* C11: a ClassificationConfig with infra_weak_threshold >= infra_strong_threshold
\* or with needs_review_threshold outside (0, 1) is rejected at construction, so
\* classify never runs with such a configuration.
C11_InvalidConfigNeverClassified ==
    pc = "classified" =>
        /\ config.infra_weak_threshold < config.infra_strong_threshold
        /\ config.needs_review_threshold > 0
        /\ config.needs_review_threshold < 1000

(***************************************************************************)
(* Concurrent classify calls. Each worker calls classify on its own        *)
(* arguments; the statements of classify (lines 577-668) run one after the *)
(* other in the worker's own call frame and interleave freely with the     *)
(* other workers' statements.                                              *)
(***************************************************************************)
MaxWorkers == 2

Workers == 1..MaxWorkers

\* the thresholds classify_project passes (pipeline.py 223-226) with the
\* defaults of load_partial_settings and of ClassificationConfig
DefaultConfig ==
    [infra_strong_threshold |-> 40, infra_weak_threshold |-> 15,
     needs_review_threshold |-> 750]

\* the records the workers classify
WorkerRecords ==
    {[mr    |-> [title |-> "Fix bug", description |-> "", labels |-> <<"bug">>],
      files |-> <<FilePool[1]>>],
     [mr    |-> [title |-> "Deploy lambda", description |-> "rollback lambda",
                 labels |-> <<>>],
      files |-> <<FilePool[2]>>],
     [mr    |-> [title |-> "Snyk auth patch", description |-> "touch deployment script",
                 labels |-> <<"infra", "platform">>],
      files |-> <<FilePool[4], FilePool[6]>>]}

\* the arguments of classify for a record: the features are the extracted ones
ArgsOf(rec) ==
    [mr       |-> rec.mr,
     files    |-> rec.files,
     features |-> Extract(rec.mr, <<>>, rec.files,
                          [thread_count |-> 0, note_count |-> 0, unresolved_count |-> 0],
                          [failed_count |-> 0],
                          [infra_strong_threshold |-> DefaultConfig.infra_strong_threshold,
                           infra_weak_threshold   |-> DefaultConfig.infra_weak_threshold]),
     config   |-> DefaultConfig]

WorkerArgs == {ArgsOf(rec) : rec \in WorkerRecords}

\* mutant: the local variables live in one module-level scratch dict
FrameShared(w) == 1

\* the call frame holding the local variables of worker w's call
Frame(w) == w

EmptyFrame ==
    [base |-> NoResult, intent |-> NoResult, infra_path_strong |-> FALSE,
     intent_override_applied |-> FALSE, final_type |-> "", capability |-> NoResult,
     risk_tags |-> {}, conf |-> NoResult]

\* mutant: the clock leaks into classifier_version
StampVersioned(r, t) ==
    [k \in DOMAIN r \cup {"classified_at"} |->
        IF k \in {"classified_at", "classifier_version"} THEN t ELSE r[k]]

\* the returned dict with classified_at = datetime.now(...) (line 667)
Stamp(r, t) ==
    [k \in DOMAIN r \cup {"classified_at"} |-> IF k = "classified_at" THEN t ELSE r[k]]

\* no single call is in progress
NoSingleCall ==
    /\ mr = [title |-> "", description |-> "", labels |-> <<>>]
    /\ commits = <<>>
    /\ files = <<>>
    /\ discussions = [thread_count |-> 0, note_count |-> 0, unresolved_count |-> 0]
    /\ pipelines = [failed_count |-> 0]
    /\ settings = [infra_strong_threshold |-> DefaultConfig.infra_strong_threshold,
                   infra_weak_threshold   |-> DefaultConfig.infra_weak_threshold]
    /\ config = DefaultConfig
    /\ features = NoFeatures
    /\ pc = "idle"
    /\ outcome = "none"
    /\ result = NoResult
    /\ raisedKey = ""

singleVars ==
    <<mr, commits, files, discussions, pipelines, settings, config, features,
      pc, outcome, result, raisedKey>>

InitWorkers ==
    /\ NoSingleCall
    /\ wargs \in [Workers -> WorkerArgs]
    /\ frame = [f \in {Frame(w) : w \in Workers} |-> EmptyFrame]
    /\ wpc = [w \in Workers |-> "base"]
    /\ wresult = [w \in Workers |-> NoResult]
    /\ now = 0
    /\ NoStore
    /\ NoEnrich
    /\ NoSync

\* the frame after lines 578-594, given the intent evidence of line 582
ClassifyFrameIntent(f, a, intent) ==
    [f EXCEPT
        !.intent = intent,
        !.infra_path_strong = \E e \in intent.evidence : StartsWith(e, "path:"),
        !.intent_override_applied =
            IntentOverrideApplied(f.base.base_type, intent.fired,
                                  \E e \in intent.evidence : StartsWith(e, "path:")),
        !.final_type =
            FinalType(f.base.base_type,
                      ScoreOverride(a.features["infra_signal_score"],
                                    a.config.infra_strong_threshold),
                      IntentOverrideApplied(f.base.base_type, intent.fired,
                          \E e \in intent.evidence : StartsWith(e, "path:")))]

\* the frame after lines 596-597, given the capability tags of line 596
ClassifyFrameTags(f, a, capability) ==
    [f EXCEPT
        !.capability = capability,
        !.risk_tags = DetectRiskTags(a.mr, a.files, a.features, capability.tags,
                                     f.final_type)]

\* the dict of lines 626-668 built from the local variables of the frame
ClassifyFrameResult(f, a) ==
    ClassifyResult(a.features, a.config, f.base, f.intent, f.infra_path_strong,
                   f.intent_override_applied, f.final_type, f.capability, f.risk_tags,
                   f.conf)

\* line 577: base_type, base_reason = infer_base_type(mr, files, features)
StepBase(w) ==
    /\ wpc[w] = "base"
    /\ frame' = [frame EXCEPT ![Frame(w)].base =
                    InferBaseType(wargs[w].mr, wargs[w].files, wargs[w].features)]
    /\ wpc' = [wpc EXCEPT ![w] = "intent"]
    /\ UNCHANGED <<singleVars, storeVars, enrichVars, syncVars, wargs, wresult, now>>

\* lines 578-594: the override decision and final_type
StepIntent(w) ==
    /\ wpc[w] = "intent"
    /\ frame' = [frame EXCEPT ![Frame(w)] =
                    ClassifyFrameIntent(frame[Frame(w)], wargs[w],
                        DetectInfraIntentOverride(wargs[w].mr, wargs[w].files,
                                                  wargs[w].features))]
    /\ wpc' = [wpc EXCEPT ![w] = "tags"]
    /\ UNCHANGED <<singleVars, storeVars, enrichVars, syncVars, wargs, wresult, now>>

\* lines 596-597: capability tags and risk tags
StepTags(w) ==
    /\ wpc[w] = "tags"
    /\ frame' = [frame EXCEPT ![Frame(w)] =
                    ClassifyFrameTags(frame[Frame(w)], wargs[w],
                        DetectCapabilityTags(wargs[w].mr, wargs[w].files,
                                             wargs[w].features,
                                             frame[Frame(w)].final_type))]
    /\ wpc' = [wpc EXCEPT ![w] = "confidence"]
    /\ UNCHANGED <<singleVars, storeVars, enrichVars, syncVars, wargs, wresult, now>>

\* lines 598-608: confidence, confidence_factors = compute_confidence(...)
StepConfidence(w) ==
    /\ wpc[w] = "confidence"
    /\ frame' = [frame EXCEPT ![Frame(w)].conf =
                    ComputeConfidence(frame[Frame(w)].base.base_type,
                                      frame[Frame(w)].final_type,
                                      wargs[w].config.needs_review_threshold,
                                      wargs[w].mr, wargs[w].files, wargs[w].features,
                                      frame[Frame(w)].base.reason,
                                      frame[Frame(w)].capability.tags,
                                      frame[Frame(w)].intent_override_applied)]
    /\ wpc' = [wpc EXCEPT ![w] = "return"]
    /\ UNCHANGED <<singleVars, storeVars, enrichVars, syncVars, wargs, wresult, now>>

\* lines 610-668: complexity, needs_review, the rationale and the returned dict;
\* the clock may or may not have advanced when the next call reads it
StepReturn(w) ==
    /\ wpc[w] = "return"
    /\ wresult' = [wresult EXCEPT ![w] =
                      Stamp(ClassifyFrameResult(frame[Frame(w)], wargs[w]), now)]
    /\ now' \in {now, now + 1}
    /\ wpc' = [wpc EXCEPT ![w] = "done"]
    /\ UNCHANGED <<singleVars, storeVars, enrichVars, syncVars, wargs, frame>>

NextWorkers ==
    \E w \in Workers :
        \/ StepBase(w)
        \/ StepIntent(w)
        \/ StepTags(w)
        \/ StepConfidence(w)
        \/ StepReturn(w)

SpecWorkers == InitWorkers /\ [][NextWorkers]_vars

\* a returned dict without its timestamp
WithoutTimestamp(r) == [k \in DOMAIN r \ {"classified_at"} |-> r[k]]

C13_Isolation ==
    /\ [](\A w \in Workers :
            wpc[w] = "done" =>
                WithoutTimestamp(wresult[w]) =
                    Classify(wargs[w].mr, wargs[w].files, wargs[w].features,
                             wargs[w].config))
    /\ [][wargs' = wargs]_vars

\* one call has returned its own result while a call on a different record is
\* still between its statements
C13_Witness ==
    \E v, w \in Workers :
        /\ wargs[v] # wargs[w]
        /\ wpc[v] = "done"
        /\ wpc[w] \in {"intent", "tags", "confidence", "return"}
        /\ wresult[v].final_type # frame[Frame(w)].final_type
        /\ WithoutTimestamp(wresult[v]) =
               Classify(wargs[v].mr, wargs[v].files, wargs[v].features, wargs[v].config)

(***************************************************************************)
(* classify_project over the stored merge requests (pipeline.py 214-292),  *)
(* called directly and through the reclassify command (cli.py 1107-1187).  *)
(***************************************************************************)
MaxMrs == 3

MaxRuns == 2

MrIds == 1..MaxMrs

\* the project of a merge request: every third one belongs to project 2
ProjectOf(id) == IF id % 3 = 0 THEN 2 ELSE 1

Projects == {ProjectOf(id) : id \in MrIds}

\* the merge_requests row of a merge request (the columns classify reads)
DbRow(id) ==
    IF id % 2 = 1
    THEN [title |-> "Fix bug", description |-> "", labels_json |-> <<"bug">>,
          source_branch |-> "fix/parser", target_branch |-> "main"]
    ELSE [title |-> "Add payment webhook", description |-> "touch deployment script",
          labels_json |-> <<>>, source_branch |-> "feat/webhook",
          target_branch |-> "main"]

\* its mr_files rows, as replace_mr_files stored them (db.py 452-468)
DbFiles(id) ==
    IF id % 2 = 1
    THEN <<[path |-> "src/a.py", additions |-> 3, deletions |-> 1]>>
    ELSE <<[path |-> ".gitlab-ci.yml", additions |-> 5, deletions |-> 1],
           [path |-> "src/b.py", additions |-> 20, deletions |-> 2]>>

\* the settings classify_project is handed (load_partial_settings defaults)
StoreSettings ==
    [infra_strong_threshold |-> 40, infra_weak_threshold |-> 15,
     classification_needs_review_threshold |-> 750]

\* c_cfg of classify_project (pipeline.py 223-226): needs_review_threshold is
\* not passed, so the dataclass default 0.75 applies
PipelineConfig(st) ==
    [infra_strong_threshold |-> st.infra_strong_threshold,
     infra_weak_threshold   |-> st.infra_weak_threshold,
     needs_review_threshold |-> 750]

\* mr = dict(row) with mr["labels"] = json.loads(labels_json) (pipeline.py 257-262)
MrOfRow(row) ==
    [title |-> row.title, description |-> row.description, labels |-> row.labels_json,
     source_branch |-> row.source_branch, target_branch |-> row.target_branch]

\* feature_row of pipeline.py 279-285 for a stored merge request
FeatureRow(m, st) ==
    Extract(MrOfRow(m.row), <<>>, m.files,
            [thread_count |-> 0, note_count |-> 0, unresolved_count |-> 0],
            [failed_count |-> 0],
            [infra_strong_threshold |-> st.infra_strong_threshold,
             infra_weak_threshold   |-> st.infra_weak_threshold])

\* classification of pipeline.py 287 for a stored merge request, read at time t
ClassificationRow(m, st, t) ==
    Stamp(Classify(MrOfRow(m.row), m.files, FeatureRow(m, st), PipelineConfig(st)), t)

\* expected_version = target_classifier_version or CLASSIFIER_VERSION (line 230);
\* "" stands for None
ExpectedVersion(target) == IF target = "" THEN CLASSIFIER_VERSION ELSE target

\* mutant: only merge requests without a stored classification are stale
StaleIdsMissingOnly(ms, cls, p, target) ==
    {id \in DOMAIN ms : ms[id].project_id = p /\ id \notin DOMAIN cls}

\* the rows of the only_stale query (pipeline.py 231-241)
StaleIds(ms, cls, p, target) ==
    {id \in DOMAIN ms :
        /\ ms[id].project_id = p
        /\ (id \notin DOMAIN cls \/ cls[id].classifier_version # ExpectedVersion(target))}

\* the rows classify_project processes (pipeline.py 228-249)
SelectedIds(ms, cls, p, only_stale, target) ==
    IF only_stale THEN StaleIds(ms, cls, p, target)
    ELSE {id \in DOMAIN ms : ms[id].project_id = p}

\* mutant: the upsert leaves the classifier_version of an existing row alone
ClassifyProjectRowsKeepVersion(ms, cls, p, only_stale, target, st, t) ==
    [id \in DOMAIN cls \cup SelectedIds(ms, cls, p, only_stale, target) |->
        IF id \in SelectedIds(ms, cls, p, only_stale, target)
        THEN IF id \in DOMAIN cls
             THEN [ClassificationRow(ms[id], st, t)
                      EXCEPT !.classifier_version = cls[id].classifier_version]
             ELSE ClassificationRow(ms[id], st, t)
        ELSE cls[id]]

\* mr_classifications after classify_project(db, settings, p, only_stale, target)
ClassifyProjectRows(ms, cls, p, only_stale, target, st, t) ==
    [id \in DOMAIN cls \cup SelectedIds(ms, cls, p, only_stale, target) |->
        IF id \in SelectedIds(ms, cls, p, only_stale, target)
        THEN ClassificationRow(ms[id], st, t)
        ELSE cls[id]]

\* mr_features after the same call
ClassifyProjectFeatures(ms, cls, fts, p, only_stale, target, st) ==
    [id \in DOMAIN fts \cup SelectedIds(ms, cls, p, only_stale, target) |->
        IF id \in SelectedIds(ms, cls, p, only_stale, target)
        THEN FeatureRow(ms[id], st)
        ELSE fts[id]]

\* a classification stored before the first modelled call, by classifier
\* version v
StoredBefore(id, v) ==
    [ClassificationRow([row |-> DbRow(id), files |-> DbFiles(id)], StoreSettings, 0)
        EXCEPT !.classifier_version = v]

\* what is stored for a merge request at the start: nothing, a classification
\* by an older classifier, or one by the current classifier
StoredVersions == {"", "v2.2", CLASSIFIER_VERSION}

InitStore ==
    /\ NoSingleCall
    /\ NoEnrich
    /\ NoSync
    /\ wargs = <<>> /\ frame = <<>> /\ wpc = <<>> /\ wresult = <<>>
    /\ now = 1
    /\ mrs = [id \in MrIds |->
                [project_id |-> ProjectOf(id), row |-> DbRow(id), files |-> DbFiles(id)]]
    /\ \E ver \in [MrIds -> StoredVersions] :
          /\ classifications =
                [id \in {i \in MrIds : ver[i] # ""} |-> StoredBefore(id, ver[id])]
          /\ feature_rows =
                [id \in {i \in MrIds : ver[i] # ""} |->
                    FeatureRow([row |-> DbRow(id), files |-> DbFiles(id)], StoreSettings)]
    /\ lastCall = [command |-> "none"]

\* classify_project(db, settings, p, only_stale=..., target_classifier_version=...)
ClassifyProject(p, only_stale, target) ==
    /\ now <= MaxRuns
    /\ classifications' =
          ClassifyProjectRows(mrs, classifications, p, only_stale, target,
                              StoreSettings, now)
    /\ feature_rows' =
          ClassifyProjectFeatures(mrs, classifications, feature_rows, p, only_stale,
                                  target, StoreSettings)
    /\ lastCall' = [command |-> "classify_project", project_ids |-> {p},
                    only_stale |-> only_stale, target |-> target,
                    count |-> Cardinality(SelectedIds(mrs, classifications, p,
                                                      only_stale, target))]
    /\ now' = now + 1
    /\ UNCHANGED <<singleVars, enrichVars, syncVars, wargs, frame, wpc, wresult, mrs>>

\* the reclassify command (cli.py 1107-1187) on one resolved project:
\* only_stale = False if args.force else bool(args.only_stale)
Reclassify(p, force, only_stale_flag) ==
    /\ now <= MaxRuns
    /\ classifications' =
          ClassifyProjectRows(mrs, classifications, p, ~force /\ only_stale_flag,
                              CLASSIFIER_VERSION, StoreSettings, now)
    /\ feature_rows' =
          ClassifyProjectFeatures(mrs, classifications, feature_rows, p,
                                  ~force /\ only_stale_flag, CLASSIFIER_VERSION,
                                  StoreSettings)
    /\ lastCall' = [command |-> "reclassify", project_ids |-> {p},
                    force |-> force, only_stale_flag |-> only_stale_flag,
                    target |-> CLASSIFIER_VERSION,
                    count |-> Cardinality(SelectedIds(mrs, classifications, p,
                                                      ~force /\ only_stale_flag,
                                                      CLASSIFIER_VERSION))]
    /\ now' = now + 1
    /\ UNCHANGED <<singleVars, enrichVars, syncVars, wargs, frame, wpc, wresult, mrs>>

NextStore ==
    \/ \E p \in Projects, only_stale \in BOOLEAN, target \in {"", "v2.2"} :
          ClassifyProject(p, only_stale, target)
    \/ \E p \in Projects, force \in BOOLEAN, only_stale_flag \in BOOLEAN :
          Reclassify(p, force, only_stale_flag)

SpecStore == InitStore /\ [][NextStore]_vars

\* the stored classification of a merge request was written by the step
C14_Reclassified(id) ==
    /\ id \in DOMAIN classifications'
    /\ (id \notin DOMAIN classifications \/ classifications'[id] # classifications[id])

\* no stored classification, or one whose version differs from the target
C14_Stale(id, target) ==
    \/ id \notin DOMAIN classifications
    \/ classifications[id].classifier_version # target

\* the merge requests the claim says the call re-classifies
C14_Expected(call) ==
    LET only_stale == IF call.command = "reclassify"
                      THEN (IF call.force THEN FALSE ELSE call.only_stale_flag)
                      ELSE call.only_stale
        target     == IF call.target = "" THEN CLASSIFIER_VERSION ELSE call.target
    IN  {id \in MrIds :
            /\ mrs[id].project_id \in call.project_ids
            /\ (only_stale => C14_Stale(id, target))}

\* C14: classify_project with only_stale re-classifies exactly the merge
\* requests of the project that have no stored classification or whose stored
\* classifier_version differs from the target version, and leaves every other
\* stored classification untouched; without only_stale (reclassify --force
\* included, which overrides --only-stale) it re-classifies every merge request
\* of the project.
C14_OnlyStaleSelection ==
    [][ /\ \A id \in MrIds : C14_Reclassified(id) <=> id \in C14_Expected(lastCall')
        /\ \A id \in DOMAIN classifications : id \in DOMAIN classifications'
        /\ lastCall'.count = Cardinality(C14_Expected(lastCall')) ]_vars

\* after a default reclassify run on project 1: one of its merge requests had a
\* current classification and kept it, one was re-classified, and the merge
\* request of project 2 kept its outdated classification
C14_Witness ==
    /\ lastCall.command = "reclassify"
    /\ ~lastCall.force /\ lastCall.only_stale_flag
    /\ lastCall.project_ids = {1}
    /\ lastCall.count = 1
    /\ \E id \in MrIds :
          /\ mrs[id].project_id = 1 /\ id \in DOMAIN classifications
          /\ classifications[id].classified_at = 0
          /\ classifications[id].classifier_version = CLASSIFIER_VERSION
    /\ \E id \in MrIds :
          /\ mrs[id].project_id = 1 /\ id \in DOMAIN classifications
          /\ classifications[id].classified_at = now - 1
    /\ \E id \in MrIds :
          /\ mrs[id].project_id = 2 /\ id \in DOMAIN classifications
          /\ classifications[id].classifier_version = "v2.2"

(***************************************************************************)
(* Candidate selection for enrichment: src/prtool/enrich.py.               *)
(* A pool row is the dict _load_stratified_pool builds: mr_id, project_id  *)
(* and final_type; the pool is ordered best first by the query.            *)
(***************************************************************************)
MaxPool == 6

MaxCount == 5

PoolTypes == {"feature", "bugfix", "docs-only"}

\* (row.get("final_type") or "unknown").strip() or "unknown"
TypeKey(row) ==
    LET t == Strip(row.final_type) IN IF t = "" THEN "unknown" ELSE t

\* per_type_count.get(t, 0) over the rows selected so far
PerTypeCount(rows, t) == Cardinality({i \in DOMAIN rows : TypeKey(rows[i]) = t})

SelectedIdsOf(rows) == {rows[i].mr_id : i \in DOMAIN rows}

\* by_type[t][0] for the types in type_order: the first row of each type
RECURSIVE TypeHeadsFrom(_, _)
TypeHeadsFrom(ranked, i) ==
    IF i > Len(ranked) THEN <<>>
    ELSE IF \E j \in 1..(i - 1) : TypeKey(ranked[j]) = TypeKey(ranked[i])
         THEN TypeHeadsFrom(ranked, i + 1)
         ELSE <<ranked[i]>> \o TypeHeadsFrom(ranked, i + 1)

\* seed_slots = min(len(by_type), math.floor(count * 0.4))
SeedSlots(ranked, count) == Min(Len(TypeHeadsFrom(ranked, 1)), (count * 4) \div 10)

\* max_per_type = max(1, math.ceil(count * 0.4))
MaxPerType(count) == Max(1, (count * 4 + 9) \div 10)

\* the third loop: fill from ranked whatever the type
RECURSIVE FillAny(_, _, _, _)
FillAny(ranked, i, sel, count) ==
    IF i > Len(ranked) \/ Len(sel) >= count THEN sel
    ELSE IF ranked[i].mr_id \in SelectedIdsOf(sel)
         THEN FillAny(ranked, i + 1, sel, count)
         ELSE FillAny(ranked, i + 1, Append(sel, ranked[i]), count)

FillCappedIgnoringCap(ranked, i, sel, count, max_per_type) == FillAny(ranked, i, sel, count)

\* the second loop: fill from ranked, skipping types that reached the cap
RECURSIVE FillCapped(_, _, _, _, _)
FillCapped(ranked, i, sel, count, max_per_type) ==
    IF i > Len(ranked) \/ Len(sel) >= count THEN sel
    ELSE IF ranked[i].mr_id \in SelectedIdsOf(sel)
              \/ PerTypeCount(sel, TypeKey(ranked[i])) >= max_per_type
         THEN FillCapped(ranked, i + 1, sel, count, max_per_type)
         ELSE FillCapped(ranked, i + 1, Append(sel, ranked[i]), count, max_per_type)

SelectStratifiedSoftGlobal(candidates, count) ==
    IF count <= 0 \/ Len(candidates) = 0 THEN <<>>
    ELSE IF Min(count, Len(candidates)) = Len(candidates) THEN candidates
    ELSE LET seeds == SubSeq(TypeHeadsFrom(candidates, 1), 1, SeedSlots(candidates, count))
         IN FillAny(candidates, 1,
                    FillCapped(candidates, 1, seeds, count, MaxPerType(count)), count)

\* the "hard" pass: drop the rows beyond max_per_type of their type
RECURSIVE HardCapFrom(_, _, _, _)
HardCapFrom(rows, i, out, max_per_type) ==
    IF i > Len(rows) THEN out
    ELSE IF PerTypeCount(out, TypeKey(rows[i])) >= max_per_type
         THEN HardCapFrom(rows, i + 1, out, max_per_type)
         ELSE HardCapFrom(rows, i + 1, Append(out, rows[i]), max_per_type)

\* candidates[:count] for count >= 0
Prefix(rows, count) == SubSeq(rows, 1, Min(count, Len(rows)))

SelectWithTypeBalance(candidates, count, type_balance) ==
    IF type_balance = "soft" THEN SelectStratifiedSoftGlobal(candidates, count)
    ELSE IF type_balance = "hard"
         THEN HardCapFrom(SelectStratifiedSoftGlobal(candidates, count), 1, <<>>,
                          MaxPerType(count))
         ELSE Prefix(candidates, count)

\* grouped[pid]: the rows of one project, in pool order
RECURSIVE RowsOfProject(_, _, _)
RowsOfProject(rows, pid, i) ==
    IF i > Len(rows) THEN <<>>
    ELSE IF rows[i].project_id = pid
         THEN <<rows[i]>> \o RowsOfProject(rows, pid, i + 1)
         ELSE RowsOfProject(rows, pid, i + 1)

\* sorted(grouped.keys()) as a sequence
RECURSIVE SortedIds(_)
SortedIds(ids) ==
    IF ids = {} THEN <<>>
    ELSE LET lo == CHOOSE x \in ids : \A y \in ids : x <= y
         IN <<lo>> \o SortedIds(ids \ {lo})

\* the per-project branch: a quota per project, then the balance inside it
RECURSIVE PerProjectFrom(_, _, _, _, _)
PerProjectFrom(rows, project_order, idx, count, type_balance) ==
    IF idx > Len(project_order) THEN <<>>
    ELSE LET quota == (count \div Len(project_order))
                      + (IF idx - 1 < count % Len(project_order) THEN 1 ELSE 0)
             rest == PerProjectFrom(rows, project_order, idx + 1, count, type_balance)
         IN IF quota <= 0 THEN rest
            ELSE SelectWithTypeBalance(RowsOfProject(rows, project_order[idx], 1),
                                       quota, type_balance) \o rest

\* the hybrid branch: the top row of each project, then a global fill
RECURSIVE ProjectSeeds(_, _, _)
ProjectSeeds(rows, project_order, idx) ==
    IF idx > Len(project_order) THEN <<>>
    ELSE <<RowsOfProject(rows, project_order[idx], 1)[1]>>
         \o ProjectSeeds(rows, project_order, idx + 1)

RECURSIVE Remaining(_, _, _)
Remaining(rows, seed_ids, i) ==
    IF i > Len(rows) THEN <<>>
    ELSE IF rows[i].mr_id \in seed_ids THEN Remaining(rows, seed_ids, i + 1)
         ELSE <<rows[i]>> \o Remaining(rows, seed_ids, i + 1)

HybridSelect(rows, project_order, count, type_balance) ==
    LET seeds == ProjectSeeds(rows, project_order, 1)
        filled == SelectWithTypeBalance(Remaining(rows, SelectedIdsOf(seeds), 1),
                                        Max(0, count - Len(seeds)), type_balance)
    IN Prefix(seeds \o filled, count)

SelectEnrichCandidates(rows, opts) ==
    IF opts.mode # "stratified" THEN <<>>
    ELSE IF Len(rows) = 0 THEN <<>>
    ELSE LET count == Max(1, opts.count)
             project_order == SortedIds({rows[i].project_id : i \in DOMAIN rows})
         IN IF opts.scope = "global"
            THEN SelectWithTypeBalance(rows, count, opts.type_balance)
            ELSE IF opts.scope = "per-project"
                 THEN Prefix(PerProjectFrom(rows, project_order, 1, count,
                                            opts.type_balance), count)
                 ELSE HybridSelect(rows, project_order, count, opts.type_balance)

\* the pools: up to MaxPool classified merge requests of two projects
PoolRow(id, t) == [mr_id |-> id, project_id |-> ProjectOf(id), final_type |-> t]

Pools ==
    UNION {{[i \in 1..n |-> PoolRow(i, ts[i])] : ts \in [1..n -> PoolTypes]} : n \in 0..MaxPool}

InitEnrich ==
    /\ NoSingleCall
    /\ NoWorkers
    /\ NoStore
    /\ NoSync
    /\ pool \in Pools
    /\ candidate_options = [mode |-> ""]
    /\ selected = <<>>

\* enrich with --candidate-mode / --candidate-count / --candidate-scope /
\* --candidate-type-balance
SelectCandidates(mode, count, scope, type_balance) ==
    /\ candidate_options.mode = ""
    /\ candidate_options' = [mode |-> mode, count |-> count, scope |-> scope,
                             type_balance |-> type_balance]
    /\ selected' = SelectEnrichCandidates(pool, candidate_options')
    /\ UNCHANGED <<singleVars, workerVars, storeVars, syncVars, pool>>

NextEnrich ==
    \E mode \in {"none", "stratified"}, count \in 0..MaxCount,
       scope \in {"global", "per-project", "hybrid"},
       type_balance \in {"none", "soft", "hard"} :
        SelectCandidates(mode, count, scope, type_balance)

SpecEnrich == InitEnrich /\ [][NextEnrich]_vars

\* ceil(0.4 * count), the share of one final_type the claim allows
C15_Cap(count) == (count * 4 + 9) \div 10

\* the number of selected rows whose final_type is t
C15_Share(t) == Cardinality({i \in DOMAIN selected : selected[i].final_type = t})

C15_SoftStratified ==
    /\ candidate_options.mode = "stratified"
    /\ candidate_options.type_balance = "soft"

\* sum over the types of min(rows of the type in the pool, cap)
C15_Available(cap) ==
    LET n(t) == Cardinality({i \in DOMAIN pool : pool[i].final_type = t})
    IN Min(n("feature"), cap) + Min(n("bugfix"), cap) + Min(n("docs-only"), cap)

\* C15 (as stated): for every pool and every count, a stratified selection
\* with soft type balance holds at most ceil(0.4 * count) merge requests of
\* any single final_type.
C15_NoTypeAboveCap ==
    C15_SoftStratified =>
        \A t \in PoolTypes : C15_Share(t) <= C15_Cap(candidate_options.count)

\* C15 (amended): in global scope with count >= 1, when the pool can fill
\* min(count, len(pool)) places without any type passing the cap, a
\* stratified selection with soft type balance has min(count, len(pool))
\* rows and at most ceil(0.4 * count) of any single final_type.
C15_NoTypeAboveCapWhenPoolAllows ==
    (/\ C15_SoftStratified
     /\ candidate_options.scope = "global"
     /\ candidate_options.count >= 1
     /\ C15_Available(C15_Cap(candidate_options.count))
            >= Min(candidate_options.count, Len(pool)))
    => /\ Len(selected) = Min(candidate_options.count, Len(pool))
       /\ \A t \in PoolTypes : C15_Share(t) <= C15_Cap(candidate_options.count)

\* a pool with more rows of one type than the cap, from which the selection
\* left some out and still filled every place
C15_Witness ==
    /\ C15_SoftStratified
    /\ candidate_options.scope = "global"
    /\ candidate_options.count = 5
    /\ Len(pool) = 6
    /\ Cardinality({i \in DOMAIN pool : pool[i].final_type = "feature"}) = 3
    /\ C15_Available(C15_Cap(5)) >= 5
    /\ Len(selected) = 5
    /\ C15_Share("feature") = 2

(***************************************************************************)
(* Merge requests whose text and paths carry competing class signals: the  *)
(* same pipeline as Spec, started from titles that match several Stage-A   *)
(* templates at once or put two Stage-B categories close together.         *)
(***************************************************************************)
SignalTitles ==
    {"fix: cleanup parser", "fix: introduce retry", "rename snyk token",
     "refactor feature flags", "cve patch", "hotfix cve regression",
     "feat: bug report", "new api perf", "Feature: simplify", "Add lint format",
     "perf bump", "bug in login", "spec docs", "bug issue", "Add payment webhook"}

SignalDescriptions == {"", "see ticket"}

SignalLabelLists == {<<>>, <<"bug">>, <<"feature">>}

SignalFileLists ==
    {<<>>,
     <<[new_path |-> "src/a.py", additions |-> 3, deletions |-> 1]>>,
     <<[new_path |-> "docs/test_plan.md", additions |-> 8, deletions |-> 0]>>,
     <<[new_path |-> "docs/requirements.txt", additions |-> 2, deletions |-> 2]>>,
     <<[new_path |-> "README.md", additions |-> 40, deletions |-> 10],
       [new_path |-> "tests/test_a.py", additions |-> 12, deletions |-> 0]>>,
     <<[new_path |-> "src/a.py", additions |-> 3, deletions |-> 1],
       [new_path |-> "README.md", additions |-> 40, deletions |-> 10],
       [new_path |-> "docs/guide.md", additions |-> 5, deletions |-> 5]>>}

\* the configurations of Spec and a review threshold below the band floor
SignalConfigs == Configs \cup {<<40, 15, 300>>}

InitSignals ==
    /\ mr \in [title : SignalTitles, description : SignalDescriptions,
               labels : SignalLabelLists]
    /\ commits = <<>>
    /\ files \in SignalFileLists
    /\ discussions = [thread_count |-> 0, note_count |-> 0, unresolved_count |-> 0]
    /\ pipelines = [failed_count |-> 0]
    /\ \E c \in SignalConfigs :
          /\ settings = [infra_strong_threshold |-> c[1], infra_weak_threshold |-> c[2]]
          /\ config = [infra_strong_threshold |-> c[1],
                       infra_weak_threshold   |-> c[2],
                       needs_review_threshold |-> c[3]]
    /\ features = NoFeatures
    /\ pc = "ingested"
    /\ outcome = "none"
    /\ result = NoResult
    /\ raisedKey = ""
    /\ NoWorkers
    /\ NoStore
    /\ NoEnrich
    /\ NoSync

SpecSignals == InitSignals /\ [][Next]_vars

\* the text and the paths infer_base_type looks at in the current state
C16_Text == JoinedText(mr, files, features)

C16_Paths == CollectPaths(files)

C16_DepOnly == features.dep_only_change

C16_AllDocs == Len(C16_Paths) > 0 /\ \A i \in DOMAIN C16_Paths : IsDocsPath(C16_Paths[i])

C16_AllTests == Len(C16_Paths) > 0 /\ \A i \in DOMAIN C16_Paths : IsTestPath(C16_Paths[i])

C16_Bugfix ==
    /\ HasAny(C16_Text, {"bugfix", "hotfix", "regression", "fix ", "fix:"})
    /\ ~HasAny(C16_Text, {"new feature", "introduce", "implement new"})
    /\ features.code_file_ratio >= 2500

C16_Refactor ==
    /\ HasAny(C16_Text, {"refactor", "cleanup", "restructure", "rename", "extract"})
    /\ ~HasAny(C16_Text, {"feature", "new endpoint", "new api"})

C16_Security == HasAny(C16_Text, {"snyk", "cve", "vulnerability", "security patch"})

\* the label of the first template that matches, "" when none does
C16_FirstTemplate ==
    IF C16_DepOnly THEN "chore"
    ELSE IF C16_AllDocs THEN "docs-only"
    ELSE IF C16_AllTests THEN "test-only"
    ELSE IF C16_Bugfix THEN "bugfix"
    ELSE IF C16_Refactor THEN "refactor"
    ELSE IF C16_Security THEN "perf-security"
    ELSE ""

\* C16: the Stage-A templates are tried in the order dependency-only,
\* all-docs, all-tests, bugfix keyword, refactor keyword, security keyword;
\* the first that matches gives the base type with certainty high even when
\* later ones match too, and the weighted scorer runs only when none matched.
C16_FirstTemplateWins ==
    (pc = "classified" /\ outcome = "returned") =>
        LET reason == result.rationale.base_reason IN
        IF C16_FirstTemplate # ""
        THEN /\ result.base_type = C16_FirstTemplate
             /\ reason.certainty = "high"
             /\ reason.reason # "weighted_signal_score"
        ELSE reason.reason = "weighted_signal_score"

\* a bugfix keyword, a refactor keyword and a security keyword in one text
C16_Witness ==
    /\ pc = "classified" /\ outcome = "returned"
    /\ ~C16_DepOnly /\ ~C16_AllDocs /\ ~C16_AllTests
    /\ C16_Bugfix /\ C16_Security
    /\ result.base_type = "bugfix"
    /\ result.rationale.base_reason.reason = "template_strong_bugfix"

\* the Stage-B rationale of the current result and its scoreboard entries,
\* as reported: <<label, score in thousandths>>, highest first
C17_StageB ==
    /\ pc = "classified" /\ outcome = "returned"
    /\ result.rationale.base_reason.reason = "weighted_signal_score"

C17_Scoreboard == result.rationale.base_reason.scoreboard

C17_FeatureScore ==
    C17_Scoreboard[CHOOSE i \in DOMAIN C17_Scoreboard : C17_Scoreboard[i][1] = "feature"][2]

C17_Margin == C17_Scoreboard[1][2] - C17_Scoreboard[2][2]

\* C17: Stage B returns the highest-scoring category, except that a
\* non-feature top whose margin over the runner-up is below 0.25 gives way to
\* feature when feature's score is at least the top score minus 0.15; the
\* reported top_margin is the top-minus-runner-up difference.
C17_TopOrFeature ==
    C17_StageB =>
        /\ result.base_type =
              (IF /\ C17_Scoreboard[1][1] # "feature"
                  /\ C17_Margin < 250
                  /\ C17_FeatureScore >= C17_Scoreboard[1][2] - 150
               THEN "feature" ELSE C17_Scoreboard[1][1])
        /\ result.rationale.base_reason.top_margin = C17_Margin

\* the four reason codes in priority order and the condition of each
C18_Codes ==
    <<"low_top2_margin", "conflicting_class_signals", "conflicting_labels",
      "missing_description">>

C18_Holds(code) ==
    CASE code = "low_top2_margin" -> result.rationale.base_reason.top_margin < 800
      [] code = "conflicting_class_signals" ->
            result.rationale.confidence_factors.conflict_pairs # <<>>
      [] code = "conflicting_labels" ->
            result.rationale.confidence_factors.label_conflict_count > 0
      [] code = "missing_description" -> ~features.has_description

C18_Why == result.rationale.why_needs_review

\* the position of a code in why_needs_review, 0 when it is absent
C18_Pos(code) ==
    IF \E i \in DOMAIN C18_Why : C18_Why[i] = code
    THEN CHOOSE i \in DOMAIN C18_Why : C18_Why[i] = code ELSE 0

\* C18: when needs_review is true, why_needs_review holds exactly the codes
\* whose condition holds, once each, in the order low_top2_margin,
\* conflicting_class_signals, conflicting_labels, missing_description; it is
\* [composite_low_confidence] exactly when none of the four holds.
C18_ReasonCodes ==
    (pc = "classified" /\ outcome = "returned" /\ result.needs_review) =>
        /\ \A i \in DOMAIN C18_Codes : (C18_Pos(C18_Codes[i]) > 0) <=> C18_Holds(C18_Codes[i])
        /\ \A i, j \in DOMAIN C18_Why : i # j => C18_Why[i] # C18_Why[j]
        /\ \A i, j \in DOMAIN C18_Codes :
              (i < j /\ C18_Pos(C18_Codes[i]) > 0 /\ C18_Pos(C18_Codes[j]) > 0)
                  => C18_Pos(C18_Codes[i]) < C18_Pos(C18_Codes[j])
        /\ (\A i \in DOMAIN C18_Codes : ~C18_Holds(C18_Codes[i]))
              <=> C18_Why = <<"composite_low_confidence">>
        /\ \A i \in DOMAIN C18_Why :
              C18_Why[i] = "composite_low_confidence" \/ C18_Pos(C18_Why[i]) = i
        /\ (\E i \in DOMAIN C18_Why : C18_Why[i] = "composite_low_confidence")
              => Len(C18_Why) = 1

\* a review raised for a thin margin, a penalized pair and a conflicting label
C18_Witness ==
    /\ pc = "classified" /\ outcome = "returned" /\ result.needs_review
    /\ features.has_description
    /\ C18_Why = <<"low_top2_margin", "conflicting_class_signals", "conflicting_labels">>

\* the two highest scoreboard categories of the current result, as a set
C19_TopTwo ==
    LET sb == result.rationale.base_reason.scoreboard
    IN  IF Len(sb) < 2 THEN {} ELSE {sb[1][1], sb[2][1]}

\* the penalty the claim gives the current result, in thousandths
C19_Penalty ==
    LET margin == result.rationale.base_reason.top_margin
        amount == CASE C19_TopTwo = {"bugfix", "feature"}       -> 70
                    [] C19_TopTwo = {"feature", "infra"}        -> 120
                    [] C19_TopTwo = {"chore", "perf-security"}  -> 100
                    [] C19_TopTwo = {"feature", "refactor"}     -> 80
                    [] OTHER                                    -> 0
    IN  IF margin >= 1000 THEN 0
        ELSE IF C19_TopTwo = {"bugfix", "feature"} /\ margin >= 750 THEN 0
        ELSE amount

\* the confidence compute_confidence gives the same merge request when the
\* scoreboard names no second category, so that no pair can be penalized
C19_Unpenalized ==
    ComputeConfidence(result.base_type, result.final_type,
                      config.needs_review_threshold, mr, files, features,
                      [result.rationale.base_reason EXCEPT !.scoreboard = <<>>],
                      result.capability_tags,
                      result.rationale.intent_override_applied).score

\* C19: the conflict penalty (bugfix/feature 0.07, feature/infra 0.12,
\* chore/perf-security 0.10, feature/refactor 0.08) is subtracted exactly when
\* the two highest scoreboard categories form one of these pairs and
\* top_margin < 1.0, bugfix/feature only while top_margin < 0.75; conflict_pairs
\* is non-empty exactly when a penalty was subtracted.
C19_ConflictPenalty ==
    (pc = "classified" /\ outcome = "returned") =>
        /\ (result.rationale.confidence_factors.conflict_pairs # <<>>) <=> C19_Penalty > 0
        /\ (C19_Unpenalized > 300 /\ C19_Unpenalized < 950) =>
              result.classification_confidence
                  = ClampConfidence(C19_Unpenalized - C19_Penalty)

\* a feature/refactor pair 0.2 apart: 0.08 is taken off a confidence that
\* no clamp touches, and the pair is recorded
C19_Witness ==
    /\ pc = "classified" /\ outcome = "returned"
    /\ C19_TopTwo = {"feature", "refactor"}
    /\ result.rationale.base_reason.top_margin = 200
    /\ C19_Unpenalized > 300 /\ C19_Unpenalized < 950
    /\ result.classification_confidence = C19_Unpenalized - 80
    /\ result.classification_confidence > 300
    /\ result.rationale.confidence_factors.conflict_pairs = << <<"feature", "refactor">> >>

\* max(0.45, min(0.80, needs_review_threshold)) of the current configuration
C20_Floor ==
    IF config.needs_review_threshold > 800 THEN 800
    ELSE IF config.needs_review_threshold < 450 THEN 450
    ELSE config.needs_review_threshold

\* C20: confidence_band is high iff the score is >= 0.80, low iff the score
\* is below max(0.45, min(0.80, needs_review_threshold)), medium otherwise,
\* and the confidence factors record the same band as the result.
C20_Bands ==
    (pc = "classified" /\ outcome = "returned") =>
        /\ (result.confidence_band = "high") <=> (result.classification_confidence >= 800)
        /\ (result.confidence_band = "low") <=> (result.classification_confidence < C20_Floor)
        /\ (result.confidence_band = "medium") <=>
              (/\ result.classification_confidence < 800
               /\ result.classification_confidence >= C20_Floor)
        /\ result.confidence_band \in {"high", "medium", "low"}
        /\ result.rationale.confidence_factors.confidence_band = result.confidence_band

\* a score between a review threshold of 0.30 and the floor of 0.45: low
C20_Witness ==
    /\ pc = "classified" /\ outcome = "returned"
    /\ config.needs_review_threshold = 300
    /\ result.classification_confidence >= 300
    /\ result.classification_confidence < 450
    /\ result.confidence_band = "low"
    /\ ~result.needs_review

(***************************************************************************)
(* The activity specification: the same two steps as Spec, run on merge    *)
(* requests that differ in their activity counters (commits, review notes  *)
(* and threads, failed pipelines, changed files), which is what            *)
(* complexity_score reads.                                                 *)
(***************************************************************************)
ActivityCommitLists ==
    {<<>>,
     <<[title |-> "wip"], [title |-> "wip"]>>,
     <<[title |-> "wip"], [title |-> "wip"], [title |-> "wip"], [title |-> "wip"],
       [title |-> "wip"]>>}

\* renamed files: no line added or removed
ActivityFileLists ==
    {<<>>,
     <<[new_path |-> "src/a.py", additions |-> 0, deletions |-> 0],
       [new_path |-> "src/b.py", additions |-> 0, deletions |-> 0]>>,
     <<[new_path |-> "src/a.py", additions |-> 300, deletions |-> 75]>>}

\* a thread holds at least one note, and only a thread can be unresolved
ActivityDiscussions ==
    {d \in [thread_count : {0, 3, 7}, note_count : {0, 7, 29},
            unresolved_count : {0, 1, 2}] :
        d.unresolved_count <= d.thread_count /\ d.thread_count <= d.note_count}

ActivityPipelines == {[failed_count |-> 0], [failed_count |-> 1], [failed_count |-> 4]}

InitActivity ==
    /\ mr = [title |-> "Fix bug", description |-> "", labels |-> <<>>]
    /\ commits \in ActivityCommitLists
    /\ files \in ActivityFileLists
    /\ discussions \in ActivityDiscussions
    /\ pipelines \in ActivityPipelines
    /\ settings = [infra_strong_threshold |-> 40, infra_weak_threshold |-> 15]
    /\ config = [infra_strong_threshold |-> 40,
                 infra_weak_threshold   |-> 15,
                 needs_review_threshold |-> 750]
    /\ features = NoFeatures
    /\ pc = "ingested"
    /\ outcome = "none"
    /\ result = NoResult
    /\ raisedKey = ""
    /\ NoWorkers
    /\ NoStore
    /\ NoEnrich
    /\ NoSync

SpecActivity == InitActivity /\ [][Next]_vars

\* one capped component, in 1/3000: min(count / divisor, cap) as a rational
C21_Capped(count, per, cap) == IF count * per >= cap THEN cap ELSE count * per

\* the sum of the seven capped components as a rational, in 1/3000
C21_Sum(ft) ==
    C21_Capped(ft["churn"], 12, 12000)
    + C21_Capped(ft["files_changed"], 300, 6000)
    + C21_Capped(ft["commit_count"], 375, 4500)
    + C21_Capped(ft["review_comment_count"], 150, 4500)
    + C21_Capped(ft["review_thread_count"], 300, 3000)
    + C21_Capped(ft["unresolved_thread_count"], 600, 3000)
    + C21_Capped(ft["pipeline_failed_count"], 1000, 3000)

\* the tier of a score given in 1/3000
C21_Tier(n) ==
    IF n < 4500 THEN "Very Low"
    ELSE IF n < 9000 THEN "Low"
    ELSE IF n < 15000 THEN "Medium"
    ELSE IF n < 21000 THEN "High"
    ELSE "Very High"

C21_Rank(level) ==
    CASE level = "Very Low" -> 0
      [] level = "Low" -> 1
      [] level = "Medium" -> 2
      [] level = "High" -> 3
      [] level = "Very High" -> 4

C21_Counters ==
    {"churn", "files_changed", "commit_count", "review_comment_count",
     "review_thread_count", "unresolved_thread_count", "pipeline_failed_count"}

\* the returned score is the float next to the sum of the capped components
\* and lies in [0, 12]
C21_ScoreIsCappedSum ==
    (pc = "classified" /\ outcome = "returned") =>
        /\ result.complexity_score[1] = C21_Sum(features)
        /\ ~ScoreLess(result.complexity_score, <<0, 0>>)
        /\ ~ScoreLess(<<36000, 0>>, result.complexity_score)

\* one more of any counter never lowers the tier
C21_TierMonotone ==
    (pc = "classified" /\ outcome = "returned") =>
        \A k \in C21_Counters :
            C21_Rank(ComplexityScore([features EXCEPT ![k] = @ + 1]).level)
                >= C21_Rank(result.complexity_level)

\* C21: complexity_score returns the sum of the seven capped components, a
\* score in [0, 12], and the tier is the one the thresholds 1.5, 3.0, 5.0 and
\* 7.0 give for that sum (Very Low below 1.5, Low below 3.0, Medium below
\* 5.0, High below 7.0, Very High from 7.0 on); one more of any counter
\* never lowers the tier.
C21_ComplexityTier ==
    /\ C21_ScoreIsCappedSum
    /\ C21_TierMonotone
    /\ (pc = "classified" /\ outcome = "returned") =>
           result.complexity_level = C21_Tier(C21_Sum(features))

\* the capped components add up to exactly 1.5 or 3.0 and the result carries
\* the tier below
C21_BoundaryTier ==
    /\ pc = "classified"
    /\ outcome = "returned"
    /\ C21_Sum(features) \in {4500, 9000}
    /\ result.complexity_level # C21_Tier(C21_Sum(features))

(***************************************************************************)
(* The tags specification: the two steps of Spec on merge requests whose   *)
(* text and files hit the capability and risk rules, with a churn of       *)
(* exactly 1500 and of 1501.                                               *)
(***************************************************************************)
TagTitles ==
    {"Fix bug", "Snyk auth patch", "Add schema migration", "Deploy lambda",
     "Breaking change in parser", "Tune cache latency"}

TagFileLists ==
    {<<>>,
     <<[new_path |-> "src/a.py", additions |-> 1000, deletions |-> 500]>>,
     <<[new_path |-> "src/a.py", additions |-> 1000, deletions |-> 501]>>,
     <<[new_path |-> "infra/main.tf", additions |-> 5, deletions |-> 1]>>,
     <<[new_path |-> "src/a.py", additions |-> 3, deletions |-> 1],
       [new_path |-> "README.md", additions |-> 40, deletions |-> 10]>>}

InitTags ==
    /\ mr \in [title : TagTitles, description : {""}, labels : {<<>>, <<"bug">>}]
    /\ commits = <<>>
    /\ files \in TagFileLists
    /\ discussions = [thread_count |-> 0, note_count |-> 0, unresolved_count |-> 0]
    /\ pipelines = [failed_count |-> 0]
    /\ \E c \in Configs :
          /\ settings = [infra_strong_threshold |-> c[1], infra_weak_threshold |-> c[2]]
          /\ config = [infra_strong_threshold |-> c[1],
                       infra_weak_threshold   |-> c[2],
                       needs_review_threshold |-> c[3]]
    /\ features = NoFeatures
    /\ pc = "ingested"
    /\ outcome = "none"
    /\ result = NoResult
    /\ raisedKey = ""
    /\ NoWorkers
    /\ NoStore
    /\ NoEnrich
    /\ NoSync

SpecTags == InitTags /\ [][Next]_vars

\* every tag the two detectors can add, in the order sorted() gives strings
TagOrder ==
    <<"api.contract", "data.migration", "deps.update", "infra.cicd", "infra.general",
      "infra.k8s", "infra.redis", "infra.terraform", "observability", "performance",
      "risk.breaking-change", "risk.infra", "risk.large-change", "risk.migration",
      "risk.security", "security.auth", "security.sca">>

\* sorted(tags) of a set of tags (classifier.py 352, 376)
SortedTags(tags) ==
    LET at == {i \in DOMAIN TagOrder : TagOrder[i] \in tags}
    IN  [k \in 1..Cardinality(at) |->
            TagOrder[CHOOSE i \in at : Cardinality({j \in at : j < i}) = k - 1]]

\* the list is sorted and holds no tag twice
C22_StrictlySorted(list) ==
    \A a, b \in DOMAIN list :
        a < b =>
            \E i, j \in DOMAIN TagOrder :
                i < j /\ TagOrder[i] = list[a] /\ TagOrder[j] = list[b]

C23_Categories(p) ==
    (IF IsDocsPathStat(p) THEN {"docs"} ELSE {})
    \cup (IF IsTestPathStat(p) THEN {"test"} ELSE {})
    \cup (IF IsDepPathStat(p) THEN {"dep"} ELSE {})
    \cup (IF IsInfraPathStat(p) THEN {"infra"} ELSE {})

\* C23: _path_stats counts each changed path in at most one of docs, test,
\* dependency-manifest and infra-path, so docs_file_count + test_file_count
\* + dep_file_count + infra_file_count never exceeds the number of paths.
C23_OneCategoryPerPath ==
    pc = "extracted" =>
        /\ \A i \in DOMAIN files :
              Cardinality(C23_Categories(Lower(Strip(RawPath(files[i]))))) <= 1
        /\ features["docs_file_count"] + features["test_file_count"]
              + features["dep_file_count"] + features["infra_file_count"]
              <= Len(files)

\* one changed path, docs/requirements.txt, counted as docs and as dependency
C23_CountedTwice ==
    /\ pc = "extracted"
    /\ Len(files) = 1
    /\ features["docs_file_count"] = 1
    /\ features["dep_file_count"] = 1

(***************************************************************************)
(* The pipeline specification: merge requests whose changed files were     *)
(* fetched and stored by replace_mr_files (db.py 452-468), and             *)
(* classify_project runs over them under the settings each run is handed   *)
(* (pipeline.py 214-292).                                                  *)
(***************************************************************************)
PipelineMrIds == {1, 2}

\* the changed files a merge request was fetched with
FetchedFileLists ==
    {<<[new_path |-> ".gitlab-ci.yml", additions |-> 5, deletions |-> 1]>>,
     <<[new_path |-> "README.md", additions |-> 40, deletions |-> 10],
       [new_path |-> "docs/guide.md", additions |-> 8, deletions |-> 0]>>,
     <<[new_path |-> "src/a.py", additions |-> 3, deletions |-> 1]>>,
     <<[old_path |-> "scripts/deploy.sh", additions |-> 0, deletions |-> 6]>>}

\* the mr_files rows replace_mr_files stores for fetched files:
\* path = f.get("new_path") or f.get("old_path") or "unknown"
ReplaceMrFiles(fetched) ==
    [i \in DOMAIN fetched |->
        [path      |-> IF Get(fetched[i], "new_path", "") # "" THEN fetched[i]["new_path"]
                       ELSE IF Get(fetched[i], "old_path", "") # ""
                            THEN fetched[i]["old_path"]
                            ELSE "unknown",
         additions |-> Get(fetched[i], "additions", 0),
         deletions |-> Get(fetched[i], "deletions", 0)]]

\* the settings a run is handed: classification_needs_review_threshold is
\* 0.75 by default and read from CLASSIFICATION_NEEDS_REVIEW_THRESHOLD
\* (config.py 121)
PipelineSettings ==
    {[infra_strong_threshold |-> 40, infra_weak_threshold |-> 15,
      classification_needs_review_threshold |-> t] : t \in {450, 750, 900}}

InitPipeline ==
    /\ NoSingleCall
    /\ NoEnrich
    /\ NoSync
    /\ wargs = <<>> /\ frame = <<>> /\ wpc = <<>> /\ wresult = <<>>
    /\ now = 1
    /\ \E fetched \in [PipelineMrIds -> FetchedFileLists] :
          mrs = [id \in PipelineMrIds |->
                    [project_id |-> ProjectOf(id), row |-> DbRow(id),
                     files |-> ReplaceMrFiles(fetched[id]), fetched |-> fetched[id]]]
    /\ classifications = <<>>
    /\ feature_rows = <<>>
    /\ lastCall = [command |-> "none"]

\* classify_project(db, st, p, only_stale=...)
ClassifyProjectUnder(p, only_stale, st) ==
    /\ now <= MaxRuns
    /\ classifications' =
          ClassifyProjectRows(mrs, classifications, p, only_stale, "", st, now)
    /\ feature_rows' =
          ClassifyProjectFeatures(mrs, classifications, feature_rows, p, only_stale,
                                  "", st)
    /\ lastCall' = [command |-> "classify_project", project_ids |-> {p},
                    only_stale |-> only_stale, target |-> "", partial_settings |-> st,
                    count |-> Cardinality(SelectedIds(mrs, classifications, p,
                                                      only_stale, ""))]
    /\ now' = now + 1
    /\ UNCHANGED <<singleVars, enrichVars, syncVars, wargs, frame, wpc, wresult, mrs>>

NextPipeline ==
    \E p \in {ProjectOf(id) : id \in PipelineMrIds}, only_stale \in BOOLEAN,
       st \in PipelineSettings :
        ClassifyProjectUnder(p, only_stale, st)

SpecPipeline == InitPipeline /\ [][NextPipeline]_vars

\* the classifications the last run stored
C24_Written ==
    {id \in DOMAIN classifications : classifications[id].classified_at = now - 1}

\* C24: classify_project stores needs_review and confidence_band computed
\* against classification_needs_review_threshold of the settings it was
\* handed, so a different setting stores a different needs_review.
C24_ConfiguredThreshold ==
    lastCall.command = "classify_project" =>
        \A id \in C24_Written :
            /\ classifications[id].needs_review =
                  NeedsReview(classifications[id].classification_confidence,
                              lastCall.partial_settings.classification_needs_review_threshold)
            /\ classifications[id].confidence_band =
                  ConfidenceBand(classifications[id].classification_confidence,
                                 lastCall.partial_settings.classification_needs_review_threshold)

\* a run under the threshold 0.45 stored a confidence of at least 0.45 with
\* needs_review
C24_DefaultApplied ==
    /\ lastCall.command = "classify_project"
    /\ lastCall.partial_settings.classification_needs_review_threshold = 450
    /\ \E id \in C24_Written :
          /\ classifications[id].classification_confidence >= 450
          /\ classifications[id].needs_review
          /\ classifications[id].rationale.needs_review_threshold = 750

\* the features FeatureExtractor.extract gives for the fetched files
C25_Features(id, st) ==
    Extract(MrOfRow(mrs[id].row), <<>>, mrs[id].fetched,
            [thread_count |-> 0, note_count |-> 0, unresolved_count |-> 0],
            [failed_count |-> 0],
            [infra_strong_threshold |-> st.infra_strong_threshold,
             infra_weak_threshold   |-> st.infra_weak_threshold])

\* C25: for a merge request whose files were stored with replace_mr_files,
\* the feature row and the classification classify_project stores equal what
\* extract followed by classify give for the fetched files themselves; a
\* merge request whose only file is .gitlab-ci.yml is stored as infra, one
\* whose files all end in .md with base_type docs-only.
C25_StoredFromFetchedPaths ==
    lastCall.command = "classify_project" =>
        \A id \in C24_Written :
            /\ feature_rows[id] = C25_Features(id, lastCall.partial_settings)
            /\ WithoutTimestamp(classifications[id]) =
                  Classify(MrOfRow(mrs[id].row), mrs[id].fetched,
                           C25_Features(id, lastCall.partial_settings),
                           PipelineConfig(lastCall.partial_settings))

\* the only fetched file is .gitlab-ci.yml and the stored final_type is not
\* infra
C25_PathsLost ==
    /\ lastCall.command = "classify_project"
    /\ \E id \in C24_Written :
          /\ Len(mrs[id].fetched) = 1
          /\ Get(mrs[id].fetched[1], "new_path", "") = ".gitlab-ci.yml"
          /\ classifications[id].final_type # "infra"
          /\ feature_rows[id]["infra_file_count"] = 0

\* C26: base_type is never infra; final_type is infra exactly when
\* infra_override_applied is true, and equals base_type when it is false;
\* infra_override_applied is true exactly when infra_signal_score reaches
\* infra_strong_threshold or the intent override was applied.
C26_OverrideInvariants ==
    (pc = "classified" /\ outcome = "returned") =>
        /\ result.base_type # "infra"
        /\ (result.final_type = "infra") <=> result.infra_override_applied
        /\ ~result.infra_override_applied => result.final_type = result.base_type
        /\ result.infra_override_applied
              <=> (features["infra_signal_score"] >= config.infra_strong_threshold
                   \/ result.rationale.intent_override_applied)

\* the intent override alone made the result infra: the score is below the
\* strong threshold
C26_Witness ==
    /\ pc = "classified"
    /\ outcome = "returned"
    /\ features["infra_signal_score"] < config.infra_strong_threshold
    /\ result.rationale.intent_override_applied
    /\ result.infra_override_applied
    /\ result.final_type = "infra"
    /\ result.base_type \in {"bugfix", "chore"}

\* C27: with needs_review_threshold in [0.45, 0.80], confidence_band is low
\* iff needs_review is true, and a result whose band is high or medium never
\* has needs_review true.
C27_LowBandIffNeedsReview ==
    (/\ pc = "classified" /\ outcome = "returned"
     /\ config.needs_review_threshold >= 450
     /\ config.needs_review_threshold <= 800) =>
        /\ (result.confidence_band = "low") <=> result.needs_review
        /\ result.confidence_band \in {"high", "medium"} => ~result.needs_review

\* under the threshold 0.45 a confidence between 0.45 and 0.75 is medium and
\* not flagged
C27_Witness ==
    /\ pc = "classified" /\ outcome = "returned"
    /\ config.needs_review_threshold = 450
    /\ result.classification_confidence >= 450
    /\ result.classification_confidence < 750
    /\ result.confidence_band = "medium"
    /\ ~result.needs_review

\* C28: the weighted scorer is reached only when dep_only_change is false:
\* a result with reason weighted_signal_score reports dep_only_change false
\* (so neither the +1.8 chore bonus nor the chore certainty upgrade applies),
\* and every dependency-only change gets base_type chore from the first
\* template.
C28_WeightedNeverDepOnly ==
    (pc = "classified" /\ outcome = "returned") =>
        /\ result.rationale.base_reason.reason = "weighted_signal_score" =>
              /\ ~result.rationale.base_reason.dep_only_change
              /\ ~Get(features, "dep_only_change", FALSE)
        /\ Get(features, "dep_only_change", FALSE) =>
              /\ result.base_type = "chore"
              /\ result.rationale.base_reason.reason =
                    "all_changed_files_are_dependency_manifests"
              /\ result.rationale.base_reason.certainty = "high"
              /\ result.rationale.base_reason.top_margin = 10000
              /\ "dep_only_change" \notin DOMAIN result.rationale.base_reason

\* a dependency-only change titled as a bug fix: chore from the first template
C28_Witness ==
    /\ pc = "classified" /\ outcome = "returned"
    /\ mr.title = "Fix bug"
    /\ Len(files) = 1
    /\ features["dep_only_change"]
    /\ result.base_type = "chore"
    /\ result.rationale.base_reason.reason = "all_changed_files_are_dependency_manifests"

\* whether the run of the call looked at stale merge requests only
C29_OnlyStale(call) ==
    IF call.command = "reclassify" THEN ~call.force /\ call.only_stale_flag
    ELSE call.only_stale

\* every merge request of the project has a classification by the current
\* classifier, so an only-stale run targeting CLASSIFIER_VERSION selects none
C29_AllCurrent(p) ==
    /\ \A id \in DOMAIN mrs :
          mrs[id].project_id = p =>
              /\ id \in DOMAIN classifications
              /\ classifications[id].classifier_version = CLASSIFIER_VERSION
    /\ SelectedIds(mrs, classifications, p, TRUE, CLASSIFIER_VERSION) = {}

\* C29 as stated: after any completed classify_project run for a project,
\* only-stale or force, every merge request of the project has a stored
\* classification stamped CLASSIFIER_VERSION, so an only-stale run targeting
\* CLASSIFIER_VERSION that follows processes zero merge requests.
C29_AfterAnyRun ==
    lastCall.command # "none" => \A p \in lastCall.project_ids : C29_AllCurrent(p)

\* C29: after a completed classify_project run for a project that was a force
\* run or an only-stale run targeting CLASSIFIER_VERSION, every merge request
\* of the project has a stored classification stamped CLASSIFIER_VERSION, so
\* an only-stale run targeting CLASSIFIER_VERSION that follows processes zero
\* merge requests.
C29_AfterCurrentRun ==
    (/\ lastCall.command # "none"
     /\ C29_OnlyStale(lastCall) => ExpectedVersion(lastCall.target) = CLASSIFIER_VERSION) =>
        \A p \in lastCall.project_ids : C29_AllCurrent(p)

\* an only-stale reclassify of project 1 processed one merge request; both of
\* the project are current now, the one of project 2 is still outdated
C29_Witness ==
    /\ lastCall.command = "reclassify"
    /\ ~lastCall.force /\ lastCall.only_stale_flag
    /\ lastCall.project_ids = {1}
    /\ lastCall.count = 1
    /\ C29_AllCurrent(1)
    /\ \E id \in DOMAIN classifications :
          /\ mrs[id].project_id = 1
          /\ classifications[id].classified_at = now - 1
    /\ \E id \in DOMAIN classifications :
          /\ mrs[id].project_id = 2
          /\ classifications[id].classifier_version = "v2.2"

-----------------------------------------------------------------------------
\* sync_refresh (src/prtool/pipeline.py): repeated refresh runs of one project
\* while merge requests are created, updated and deleted on GitLab.  The
\* updated_at strings are ISO timestamps of one format, so they compare like
\* the clock values that stand for them here; None is the empty sequence <<>>
\* and a value v is <<v>>.

MaxSyncMrs == 2
MaxClock == 3

SyncIids == 1 .. MaxSyncMrs

InitSync ==
    /\ NoSingleCall
    /\ NoWorkers
    /\ NoStore
    /\ NoEnrich
    /\ remote = [i \in SyncIids |-> [state |-> "absent", updated_at |-> 0]]
    /\ remote_clock = 0
    /\ synced = <<>>
    /\ checkpoint = <<>>
    /\ lastSync = [command |-> "none"]

\* a merge request is created or changed on GitLab: its updated_at is the time
\* of the change
RemoteUpdate(iid) ==
    /\ remote_clock < MaxClock
    /\ remote[iid].state # "deleted"
    /\ remote_clock' = remote_clock + 1
    /\ remote' = [remote EXCEPT ![iid] = [state |-> "open", updated_at |-> remote_clock + 1]]
    /\ UNCHANGED <<singleVars, workerVars, storeVars, enrichVars, synced, checkpoint, lastSync>>

\* a merge request is deleted on GitLab: the API lists it no more
RemoteDelete(iid) ==
    /\ remote[iid].state = "open"
    /\ remote' = [remote EXCEPT ![iid].state = "deleted"]
    /\ UNCHANGED <<singleVars, workerVars, storeVars, enrichVars, remote_clock, synced, checkpoint, lastSync>>

\* db.load_checkpoint and the watermark sync_refresh reads from the row
WatermarkOf(cp) == IF cp = <<>> THEN <<>> ELSE cp[1].watermark_updated_at

\* GitLabSourceClient.list_merge_requests: every merge request when
\* updated_after is None, else those updated at or after it
ListMergeRequests(updated_after) ==
    {i \in SyncIids :
        /\ remote[i].state = "open"
        /\ updated_after # <<>> => remote[i].updated_at >= updated_after[1]}

\* _ingest_mrs with source refresh: a fetched merge request whose stored
\* updated_at equals the fetched one is skipped
ToProcess(fetched) ==
    {i \in fetched : ~(i \in DOMAIN synced /\ synced[i] = remote[i].updated_at)}

\* _ingest_mrs: max_updated_at starts as None and takes the largest updated_at
\* of the fetched merge requests
MaxUpdatedAt(fetched) ==
    IF fetched = {} THEN <<>>
    ELSE <<CHOOSE t \in {remote[i].updated_at : i \in fetched} :
              \A i \in fetched : remote[i].updated_at <= t>>

\* _ingest_mrs: last_iid starts as None and is the merge request that set
\* max_updated_at
LastIid(fetched) ==
    IF fetched = {} THEN <<>>
    ELSE <<CHOOSE i \in fetched : <<remote[i].updated_at>> = MaxUpdatedAt(fetched)>>

\* db.upsert_checkpoint: the row of (project, source) is inserted, or its
\* watermark_updated_at and last_mr_iid are overwritten with the given values
UpsertCheckpoint(watermark_updated_at, last_mr_iid) ==
    <<[watermark_updated_at |-> watermark_updated_at, last_mr_iid |-> last_mr_iid]>>

\* sync_refresh: load the checkpoint, fetch what changed since its watermark,
\* store the merge requests to process and write the checkpoint
SyncRefresh ==
    LET fetched == ListMergeRequests(WatermarkOf(checkpoint))
        to_process == ToProcess(fetched)
    IN  /\ synced' = [i \in (DOMAIN synced) \cup to_process |->
                         IF i \in to_process THEN remote[i].updated_at ELSE synced[i]]
        /\ checkpoint' = UpsertCheckpoint(MaxUpdatedAt(fetched), LastIid(fetched))
        /\ lastSync' = [command |-> "sync_refresh", fetched |-> fetched,
                        processed |-> Cardinality(to_process)]
        /\ UNCHANGED <<singleVars, workerVars, storeVars, enrichVars, remote, remote_clock>>

NextSync ==
    \/ \E iid \in SyncIids : RemoteUpdate(iid)
    \/ \E iid \in SyncIids : RemoteDelete(iid)
    \/ SyncRefresh

SpecSync == InitSync /\ [][NextSync]_vars

\* the step is a run of sync_refresh
C30_RefreshStep ==
    /\ remote' = remote
    /\ lastSync'.command = "sync_refresh"

\* C30: across any sequence of sync_refresh runs for a project the stored
\* refresh watermark_updated_at never moves backwards: a run leaves it at
\* least as large as before, a run that fetches no merge requests leaves it
\* unchanged, and it is never reset to null.
C30_WatermarkNeverBackwards ==
    [][C30_RefreshStep =>
          /\ WatermarkOf(checkpoint) # <<>> =>
                /\ WatermarkOf(checkpoint') # <<>>
                /\ WatermarkOf(checkpoint')[1] >= WatermarkOf(checkpoint)[1]
          /\ lastSync'.fetched = {} => WatermarkOf(checkpoint') = WatermarkOf(checkpoint)]_vars

\* a refresh fetched nothing, the newest merge request being deleted on
\* GitLab: the checkpoint row holds a null watermark while merge requests
\* are stored
C30_WatermarkReset ==
    /\ lastSync.command = "sync_refresh"
    /\ lastSync.fetched = {}
    /\ synced # <<>>
    /\ checkpoint # <<>>
    /\ WatermarkOf(checkpoint) = <<>>

====
